---- MODULE Spec2Model ----
(***************************************************************************)
(* Network integrity watchdog (src/netscan/watchdog.py).                   *)
(*                                                                         *)
(* One run of main() is a sequence of steps: load the persisted state, run *)
(* the checks of the selected mode one after the other, filter the alerts  *)
(* through the cooldown map, decide and send the notification, write the   *)
(* report, update and save the state, prune old reports, regenerate the    *)
(* dashboard.  Runs follow each other on a wall clock that only advances.  *)
(*                                                                         *)
(* Time is counted in ticks, TicksPerSec ticks to the second, so that the  *)
(* difference between datetime.isoformat(timespec="seconds"), which drops  *)
(* the fraction of the second, and datetime.isoformat(), which keeps it,   *)
(* is part of the model.  ISO strings of one fixed layout order as the     *)
(* instants they denote, and a string without fraction sorts before the    *)
(* same second with a fraction, so a timestamp string is modelled by its   *)
(* tick count and string comparison by integer comparison.                 *)
(***************************************************************************)
EXTENDS Integers, Sequences, FiniteSets, TLC

----------------------------------------------------------------------------
(* Bounds of the model *)

\* resolution of the clock: ticks per second
TicksPerSec == 4
\* runs of the watchdog in one behaviour
MaxRuns == 2
\* checks that raise in the runs of one behaviour
MaxRaise == 1
\* length of the history in the persisted state the behaviour starts from
InitHistoryLen == 199
\* fraction of the second (in ticks) at which the first run starts
StartFrac == 3
\* dated files of one dataset on disk when the reader is called
MaxFiles == 3
\* days a probed certificate still has at most
MaxDaysLeft == 31
\* the processes of main that are started
MaxProcs == 2

----------------------------------------------------------------------------
(* Configuration (watchdog.py, lines 46-87) *)

ALERT_COOLDOWN_HOURS == 24
RETENTION_DAYS == 30
HistoryCap == 200
ItemsPerTier == 6

Sec == TicksPerSec
Minute == 60 * Sec
Hour == 60 * Minute
Day == 24 * Hour

\* the instant (whole second) the first run starts in, 40 days after the epoch
\* of the model, so that reports older than the retention window can exist
T0 == 40 * Day

\* a path: the name of the file, and whether it carries the suffix ".tmp"
Path(name) == [name |-> name, tmp |-> FALSE]

STATE_FILE == Path(<<"watchdog-state.json">>)

----------------------------------------------------------------------------
(* Utilities *)

\* the empty dict
EmptyMap == <<>>

Max(a, b) == IF a >= b THEN a ELSE b

\* datetime.isoformat(timespec="seconds"): the fraction of the second is dropped
IsoSeconds(t) == (t \div Sec) * Sec

\* NOW.strftime("%Y%m%d") and NOW.strftime("%H%M"), as day and minute numbers
DateOf(t) == t \div Day
HHMMOf(t) == (t % Day) \div Minute

\* a file holds a complete JSON document, or a proper prefix of one
Complete(data) == [complete |-> TRUE, doc |-> data]
Partial(data) == [complete |-> FALSE, doc |-> data]

\* load_json: the parsed document, None when the file is missing or unparsable
None == [none |-> TRUE]

\* (variant: what a file that is cut short holds is taken as its document)
load_json_lenient(f, path) ==
    IF path \in DOMAIN f THEN f[path].doc ELSE None

load_json(f, path) ==
    IF path \in DOMAIN f /\ f[path].complete THEN f[path].doc ELSE None

\* (variant: the document is written in place)
TmpPathInPlace(path) == path

\* save_json, line 106: the temporary path of a target
TmpPath(path) == [path EXCEPT !.tmp = TRUE]

\* save_json, lines 107-108: open(tmp, "w") truncates the file, json.dump
\* writes the document piece by piece
FsOpenWrite(f, path, data) == (path :> Partial(data)) @@ f
FsDump(f, path, data) == (path :> Complete(data)) @@ f
\* save_json, line 109: os.replace(tmp, path)
FsReplace(f, src, dst) ==
    [q \in (DOMAIN f \ {src}) \cup {dst} |-> IF q = dst THEN f[src] ELSE f[q]]

\* (variant: the title is left out of the key)
alert_hash_no_title(alert) == alert.category \o "|" \o alert.host

\* alert_hash: the digest of "category|host|title" (a digest of 48 bits,
\* taken here to be free of collisions on the keys of the model)
alert_hash(alert) == alert.category \o "|" \o alert.host \o "|" \o alert.title

----------------------------------------------------------------------------
(* The snapshot reader (watchdog.py, lines 111-116) *)

\* the dated snapshot of a dataset ("scan", "vuln", "enum"): scan-<date>.json
SnapshotFile(kind, date) == Path(<<kind, date>>)

\* glob.glob(pattern): the files of the dataset, not their temporary files
Glob(f, kind) == {q \in DOMAIN f : ~q.tmp /\ Len(q.name) = 2 /\ q.name[1] = kind}

\* sorted(...): by name, which for names that differ in their date only is
\* by date
RECURSIVE Sorted(_)
Sorted(S) ==
    IF S = {} THEN <<>>
    ELSE LET first == CHOOSE q \in S : \A o \in S : q.name[2] <= o.name[2]
         IN  <<first>> \o Sorted(S \ {first})

\* (variant: a file that does not parse is passed over for the next older one)
get_latest_two_parsable(f, kind) ==
    LET files == Sorted({q \in Glob(f, kind) : f[q].complete})
        n == Len(files)
    IN  [curr |-> IF n >= 1 THEN load_json(f, files[n]) ELSE None,
         prev |-> IF n >= 2 THEN load_json(f, files[n - 1]) ELSE None]

\* get_latest_two: (current, previous) from the date-sorted files
get_latest_two(f, kind) ==
    LET files == Sorted(Glob(f, kind))
        n == Len(files)
    IN  [curr |-> IF n >= 1 THEN load_json(f, files[n]) ELSE None,
         prev |-> IF n >= 2 THEN load_json(f, files[n - 1]) ELSE None]

----------------------------------------------------------------------------
(* The checks, each as the function of what it reads (lines 164-689).  An  *)
(* IP address is the tuple of its octets, a MAC address the record of its  *)
(* first three bytes (what mac[:8] shows), the rest, and its letter case.  *)

IpStr(ip) ==
    ToString(ip[1]) \o "." \o ToString(ip[2]) \o "." \o ToString(ip[3])
        \o "." \o ToString(ip[4])

\* SUBNET = "192.168." and ip.startswith(SUBNET)
SUBNET == <<192, 168>>
InSubnet(ip) == SubSeq(ip, 1, Len(SUBNET)) = SUBNET

GATEWAY_IP == <<192, 168, 1, 254>>

\* h.get("mac", ""): no MAC recorded
NoMac == [oui |-> "", nic |-> 0, upper |-> TRUE]
\* str.upper()
Upper(mac) == [mac EXCEPT !.upper = TRUE]

Alert(tier, category, title, detail, host) ==
    [tier |-> tier, category |-> category, title |-> title, detail |-> detail,
     host |-> host]

\* the elements of a sequence / whether x is one of them
Elems(q) == {q[k] : k \in 1..Len(q)}
Has(q, x) == \E k \in 1..Len(q) : q[k] = x

\* the elements of a set, one after the other
RECURSIVE SeqOf(_)
SeqOf(S) ==
    IF S = {} THEN <<>>
    ELSE LET x == CHOOSE x \in S : TRUE IN <<x>> \o SeqOf(S \ {x})

\* the keys of a dict filled by d[e.ip] = ... for e in q, in insertion order
RECURSIVE KeysOf(_)
KeysOf(q) ==
    IF q = <<>> THEN <<>>
    ELSE LET before == KeysOf(SubSeq(q, 1, Len(q) - 1))
             ip == q[Len(q)].ip
         IN  IF Has(before, ip) THEN before ELSE Append(before, ip)

\* lines 170-177: known IP -> MAC (upper case) of the hosts that have one
KnownOf(scan) ==
    IF scan = None THEN EmptyMap
    ELSE [ip \in {i \in DOMAIN scan.hosts : scan.hosts[i].mac # NoMac} |->
              Upper(scan.hosts[ip].mac)]

\* lines 180-190: the neighbor entries that are kept, and the dict live
\* (neigh holds the lines of "ip neigh show" that carry an lladdr)
KeptNeigh(neigh) ==
    SelectSeq(neigh, LAMBDA e :
        e.state \notin {"FAILED", "INCOMPLETE"} /\ InSubnet(e.ip))
LiveOf(neigh) ==
    LET kept == KeptNeigh(neigh) IN
    [ip \in {kept[k].ip : k \in 1..Len(kept)} |->
        LET last == CHOOSE k \in 1..Len(kept) :
                        /\ kept[k].ip = ip
                        /\ \A j \in (k + 1)..Len(kept) : kept[j].ip # ip
        IN  Upper(kept[last].mac)]

\* (variant: the tiers of the two cases are exchanged)
ArpTierSwapped(is_known) == IF is_known THEN "critical" ELSE "high"

\* line 197
ArpTier(is_known) == IF is_known THEN "high" ELSE "critical"

\* check_arp_integrity, from the scan files and the neighbor table
check_arp_integrity(files, neigh) ==
    LET scan == get_latest_two(files, "scan").curr
        known == KnownOf(scan)
        known_macs == {known[ip] : ip \in DOMAIN known}
        live == LiveOf(neigh)
        ips == KeysOf(KeptNeigh(neigh))
        anomalies == SelectSeq(ips, LAMBDA ip :
                        ip \in DOMAIN known /\ live[ip] # known[ip])
        AnomalyAlert(ip) ==
            LET is_known == live[ip] \in known_macs IN
            Alert(ArpTier(is_known), "arp_anomaly",
                  "ARP change: " \o IpStr(ip) \o " MAC " \o known[ip].oui
                      \o "->" \o live[ip].oui,
                  IF is_known THEN "known device" ELSE "unknown MAC",
                  IpStr(ip))
        macs == SeqOf({live[ip] : ip \in DOMAIN live})
        IpsOf(mac) == SelectSeq(ips, LAMBDA ip : live[ip] = mac)
        dups == SelectSeq(macs, LAMBDA mac : Len(IpsOf(mac)) > 3)
        DupAlert(mac) ==
            Alert("medium", "arp_dup_mac",
                  "MAC " \o mac.oui \o " claimed by "
                      \o ToString(Len(IpsOf(mac))) \o " IPs",
                  IpStr(IpsOf(mac)[1]), IpStr(IpsOf(mac)[1]))
        alerts == [k \in 1..Len(anomalies) |-> AnomalyAlert(anomalies[k])]
                    \o [k \in 1..Len(dups) |-> DupAlert(dups[k])]
    IN  [alerts |-> alerts,
         stats |-> [checked |-> Cardinality(DOMAIN live),
                    anomalies |-> Len(anomalies),
                    status |-> IF \E k \in 1..Len(alerts) : alerts[k].tier = "critical"
                               THEN "critical"
                               ELSE IF anomalies # <<>> THEN "warning" ELSE "ok"]]

\* DNS_TARGETS, line 66
DNS_TARGETS == <<"google.com", "cloudflare.com", "one.one.one.one">>

\* line 245: the address is in 10/8, 172.16/12 or 192.168/16
IsPrivate(ip) ==
    \/ ip[1] = 10
    \/ ip[1] = 172 /\ ip[2] \in 16..31
    \/ ip[1] = 192 /\ ip[2] = 168

\* check_dns_integrity, from what getaddrinfo answers for each target: a set
\* of addresses, or socket.gaierror
check_dns_integrity(answers) ==
    LET AlertsOf(domain) ==
            IF answers[domain].gaierror
            THEN <<Alert("high", "dns_failure", "DNS lookup failed: " \o domain,
                         "Could not resolve", "")>>
            ELSE LET poisoned == SeqOf({ip \in answers[domain].addrs : IsPrivate(ip)})
                 IN  [k \in 1..Len(poisoned) |->
                        Alert("critical", "dns_poisoned",
                              "DNS poisoning: " \o domain \o " -> " \o IpStr(poisoned[k]),
                              "Public domain resolving to private IP", "")]
        alerts == AlertsOf(DNS_TARGETS[1]) \o AlertsOf(DNS_TARGETS[2])
                    \o AlertsOf(DNS_TARGETS[3])
        issues == Len(alerts)
    IN  [alerts |-> alerts,
         stats |-> [checked |-> Len(DNS_TARGETS), issues |-> issues,
                    status |-> IF issues # 0 THEN "critical" ELSE "ok"]]

\* the anchors of the internet check, lines 284-288
ANCHOR_ONE == <<1, 1, 1, 1>>
ANCHOR_EIGHT == <<8, 8, 8, 8>>

\* run_cmd("ping -c 1 ..."): the summary line the ping of the machine prints,
\* in words, for a target that answers and for one that does not; the ping
\* of iputils prints "1 received", the one of busybox "1 packets received"
PingOutput(ping, answers) ==
    LET n == IF answers THEN "1" ELSE "0" IN
    IF ping = "iputils"
    THEN <<"1", "packets", "transmitted", ",", n, "received", ",", "time">>
    ELSE <<"1", "packets", "transmitted", ",", n, "packets", "received">>

\* needle in out
Within(needle, out) ==
    \E k \in 0..(Len(out) - Len(needle)) : SubSeq(out, k + 1, k + Len(needle)) = needle

\* lines 274-275, 284-285, 287-288:
\* "1 received" in run_cmd(cmd) or "1 packets received" in run_cmd(cmd);
\* the command is run again when the first output has no "1 received".
\* probes is the targets of the commands run, in the order they were run.
PingOk(ping, target, answers) ==
    IF Within(<<"1", "received">>, PingOutput(ping, answers))
    THEN [ok |-> TRUE, probes |-> <<target>>]
    ELSE [ok |-> Within(<<"1", "packets", "received">>, PingOutput(ping, answers)),
          probes |-> <<target, target>>]

\* (variant: the check goes on to the internet anchors with the gateway down)
ReturnsEarlyNever(gw_ok) == FALSE

\* lines 276-283: the return of the branch `if not gw_ok`
ReturnsEarly(gw_ok) == ~gw_ok

\* check_gateway, from the ping of the machine and whether the gateway,
\* 1.1.1.1 and 8.8.8.8 answer; beside (alerts, stats), the commands it ran
check_gateway(ping, gw, one, eight) ==
    LET g == PingOk(ping, GATEWAY_IP, gw)
        gw_ok == g.ok
        down == IF ~gw_ok
                THEN <<Alert("critical", "gateway_down",
                             "Gateway unreachable: " \o IpStr(GATEWAY_IP),
                             "Default gateway not responding to ping",
                             IpStr(GATEWAY_IP))>>
                ELSE <<>>
    IN  IF ReturnsEarly(gw_ok)
        THEN [alerts |-> down,
              stats |-> [gateway |-> FALSE, internet |-> FALSE, status |-> "critical"],
              probes |-> g.probes]
        ELSE LET a == PingOk(ping, ANCHOR_ONE, one)
                 b == PingOk(ping, ANCHOR_EIGHT, eight)
                 inet_ok == a.ok \/ b.ok
             IN  [alerts |-> down \o
                             (IF ~inet_ok
                              THEN <<Alert("high", "internet_down", "Internet unreachable",
                                           "Gateway is up but 1.1.1.1 and 8.8.8.8 not responding",
                                           "")>>
                              ELSE <<>>),
                  stats |-> [gateway |-> gw_ok, internet |-> inet_ok,
                             status |-> IF inet_ok THEN "ok"
                                        ELSE IF ~gw_ok THEN "critical" ELSE "high"],
                  probes |-> g.probes \o a.probes \o (IF a.ok THEN <<>> ELSE b.probes)]

\* CRITICAL_DEVICE_TYPES, line 60
CRITICAL_DEVICE_TYPES == {"server", "network"}

\* h.get("mdns_name") or h.get("hostname") or h.get("vendor_oui") or ip: the
\* host record carries the first of the three names that is set, "" if none
NameOf(h, ip) == IF h.name # "" THEN h.name ELSE IpStr(ip)

\* lines 324-325: the gateway is always among the critical devices
WithGateway(critical) ==
    IF GATEWAY_IP \in DOMAIN critical THEN critical
    ELSE critical @@ (GATEWAY_IP :> [name |-> "Gateway", type |-> "network"])

\* check_device_availability, from the scan files and the hosts that answer
\* the ping; beside (alerts, stats), the addresses it pinged
check_device_availability(files, answering) ==
    LET scan == get_latest_two(files, "scan").curr IN
    IF scan = None THEN [alerts |-> <<>>, stats |-> EmptyMap, pinged |-> <<>>]
    ELSE
    LET listed == {ip \in DOMAIN scan.hosts :
                      scan.hosts[ip].device_type \in CRITICAL_DEVICE_TYPES}
        critical == WithGateway(
                        [ip \in listed |->
                            [name |-> NameOf(scan.hosts[ip], ip),
                             type |-> scan.hosts[ip].device_type]])
        order == SeqOf(listed) \o (IF GATEWAY_IP \in listed \/ GATEWAY_IP \notin DOMAIN critical
                                   THEN <<>> ELSE <<GATEWAY_IP>>)
        missing == SelectSeq(order, LAMBDA ip : ip \notin answering)
    IN  [alerts |-> [k \in 1..Len(missing) |->
                        Alert("high", "device_offline",
                              "Offline: " \o critical[missing[k]].name
                                  \o " (" \o IpStr(missing[k]) \o ")",
                              critical[missing[k]].type \o " device not responding to ping",
                              IpStr(missing[k]))],
         stats |-> [critical_total |-> Cardinality(DOMAIN critical),
                    offline |-> Len(missing),
                    status |-> IF missing # <<>> THEN "critical" ELSE "ok"],
         pinged |-> order]

\* lines 362-363: the identity of a finding
fkey(f) == <<f.type, f.port, f.cve>>

\* prev_hosts.get(ip, {}).get("findings", [])
FindingsOf(hosts, ip) == IF ip \in DOMAIN hosts THEN hosts[ip].findings ELSE <<>>

\* lines 366-373: the findings of a host of the current snapshot whose key is
\* not among the keys of the host in the previous one
NewOf(curr_hosts, prev_hosts, ip) ==
    LET prev_keys == {fkey(f) : f \in Elems(FindingsOf(prev_hosts, ip))} IN
    SelectSeq(curr_hosts[ip].findings, LAMBDA f : fkey(f) \notin prev_keys)

\* the new findings of the hosts in the sequence ips, as (ip, name, finding)
RECURSIVE NewFindings(_, _, _)
NewFindings(curr_hosts, prev_hosts, ips) ==
    IF ips = <<>> THEN <<>>
    ELSE LET ip == ips[1]
             found == NewOf(curr_hosts, prev_hosts, ip)
         IN  [k \in 1..Len(found) |->
                [ip |-> ip, name |-> curr_hosts[ip].name, f |-> found[k]]]
             \o NewFindings(curr_hosts, prev_hosts, SubSeq(ips, 2, Len(ips)))

\* lines 374-384: the number of findings that are gone
Resolved(curr_hosts, prev_hosts) ==
    LET GoneOf(ip) ==
            LET curr_keys == {fkey(f) : f \in Elems(FindingsOf(curr_hosts, ip))} IN
            Len(SelectSeq(prev_hosts[ip].findings, LAMBDA f : fkey(f) \notin curr_keys))
        both == SeqOf(DOMAIN curr_hosts \cap DOMAIN prev_hosts)
        RECURSIVE Sum(_)
        Sum(q) == IF q = <<>> THEN 0 ELSE GoneOf(q[1]) + Sum(SubSeq(q, 2, Len(q)))
    IN  Sum(both)
        + Cardinality({ip \in DOMAIN prev_hosts \ DOMAIN curr_hosts :
                          prev_hosts[ip].finding_count > 0})

\* (variant: every new medium finding gets its own alert)
MediumAlertsEach(med_list) ==
    [k \in 1..Len(med_list) |->
        Alert("medium", "vuln_new",
              "New medium vuln: " \o med_list[k].f.type \o " on " \o med_list[k].name,
              IpStr(med_list[k].ip), IpStr(med_list[k].ip))]

\* lines 407-415: the new medium findings share one alert
MediumAlerts(med_list) ==
    IF med_list = <<>> THEN <<>>
    ELSE <<Alert("medium", "vuln_new",
                 ToString(Len(med_list)) \o " new medium vuln(s) on "
                     \o ToString(Cardinality({med_list[k].ip : k \in 1..Len(med_list)}))
                     \o " host(s)",
                 [k \in 1..(IF Len(med_list) < 5 THEN Len(med_list) ELSE 5) |->
                    <<IpStr(med_list[k].ip), med_list[k].f.type>>],
                 "")>>

\* line 420
RiskDelta(curr_risk, prev_risk) == curr_risk - prev_risk

\* lines 417-434: the movement of the average risk score
RiskAlerts(curr_risk, prev_risk) ==
    LET delta == RiskDelta(curr_risk, prev_risk) IN
    IF delta >= 10
    THEN <<Alert("high", "risk_spike",
                 "Risk spike: " \o ToString(prev_risk) \o "->" \o ToString(curr_risk),
                 "Network-wide average risk jumped significantly", "")>>
    ELSE IF delta >= 5
    THEN <<Alert("medium", "risk_increase",
                 "Risk up: " \o ToString(prev_risk) \o "->" \o ToString(curr_risk),
                 "Network average risk increased", "")>>
    ELSE <<>>

\* check_vuln_deltas, from the vulnerability snapshots
check_vuln_deltas(files) ==
    LET two == get_latest_two(files, "vuln")
        curr == two.curr
        prev == two.prev
    IN
    IF curr = None THEN [alerts |-> <<>>, stats |-> EmptyMap]
    ELSE IF prev = None
    THEN [alerts |-> <<>>,
          stats |-> [note |-> "first vuln scan, no comparison", status |-> "ok"]]
    ELSE
    LET new_findings == NewFindings(curr.hosts, prev.hosts, SeqOf(DOMAIN curr.hosts))
        BySev(sev) == SelectSeq(new_findings, LAMBDA n : n.f.severity = sev)
        crit == BySev("critical")
        high == BySev("high")
        alerts ==
            [k \in 1..Len(crit) |->
                Alert("critical", "vuln_new",
                      "Critical vuln: " \o crit[k].f.type \o " on " \o crit[k].name,
                      IpStr(crit[k].ip), IpStr(crit[k].ip))]
            \o [k \in 1..Len(high) |->
                Alert("high", "vuln_new",
                      "New high vuln: " \o high[k].f.type \o " on " \o high[k].name,
                      IpStr(high[k].ip), IpStr(high[k].ip))]
            \o MediumAlerts(BySev("medium"))
            \o RiskAlerts(curr.stats.avg_risk_score, prev.stats.avg_risk_score)
    IN  [alerts |-> alerts,
         stats |-> [new_total |-> Len(new_findings),
                    new_critical |-> Len(crit),
                    new_high |-> Len(high),
                    new_medium |-> Len(BySev("medium")),
                    resolved |-> Resolved(curr.hosts, prev.hosts),
                    risk_delta |-> RiskDelta(curr.stats.avg_risk_score,
                                             prev.stats.avg_risk_score),
                    status |-> IF crit # <<>> THEN "critical"
                               ELSE IF high # <<>> THEN "warning" ELSE "ok"]]

\* lines 463-480: the changes of one host: its fingerprint, then the Server
\* header of every port that both snapshots have
ServiceChangesOf(curr, prev, ip) ==
    LET ch == curr.hosts[ip]
        known == ip \in DOMAIN prev.hosts
        pfp == IF known THEN prev.hosts[ip].fingerprint ELSE ""
        phttp == IF known THEN prev.hosts[ip].http ELSE <<>>
        pairs == [n \in 1..(Len(ch.http) * Len(phttp)) |->
                    [c |-> ch.http[((n - 1) \div Len(phttp)) + 1],
                     q |-> phttp[((n - 1) % Len(phttp)) + 1]]]
        changed == SelectSeq(pairs, LAMBDA x :
                      /\ x.c.port = x.q.port
                      /\ x.c.server # "" /\ x.q.server # ""
                      /\ x.c.server # x.q.server)
    IN  (IF ch.fingerprint # "" /\ pfp # "" /\ ch.fingerprint # pfp
         THEN <<[ip |-> ip, old |-> pfp, new |-> ch.fingerprint]>> ELSE <<>>)
        \o [k \in 1..Len(changed) |->
              [ip |-> ip, old |-> changed[k].q.server, new |-> changed[k].c.server]]

RECURSIVE ServiceChanges(_, _, _)
ServiceChanges(curr, prev, ips) ==
    IF ips = <<>> THEN <<>>
    ELSE ServiceChangesOf(curr, prev, ips[1])
         \o ServiceChanges(curr, prev, SubSeq(ips, 2, Len(ips)))

\* check_service_changes, from the fingerprint snapshots
check_service_changes(files) ==
    LET two == get_latest_two(files, "enum") IN
    IF two.curr = None \/ two.prev = None
    THEN [alerts |-> <<>>, stats |-> [status |-> "ok", note |-> "need 2+ enum runs"]]
    ELSE
    LET changes == ServiceChanges(two.curr, two.prev, SeqOf(DOMAIN two.curr.hosts)) IN
    [alerts |-> [k \in 1..Len(changes) |->
                    Alert("medium", "service_change",
                          "Service change: " \o IpStr(changes[k].ip),
                          changes[k].old \o " -> " \o changes[k].new,
                          IpStr(changes[k].ip))],
     stats |-> [changes |-> Len(changes),
                status |-> IF changes # <<>> THEN "warning" ELSE "ok"]]

\* CERT_WARN_DAYS, CERT_CRIT_DAYS, lines 69-70
CERT_WARN_DAYS == 30
CERT_CRIT_DAYS == 7

\* lines 506-507
TLS_SERVICES == {"https", "ssl", "https-alt", "imaps", "pop3s", "smtps"}
TLS_PORTS == {443, 8443, 993, 995, 465, 636}

\* lines 503-517: the (host, port) pairs to probe
TlsTargets(files) ==
    LET scan == get_latest_two(files, "scan").curr
        enum == get_latest_two(files, "enum").curr
    IN  (IF scan = None THEN {}
         ELSE UNION {{<<ip, q.port>> : q \in {q \in scan.hosts[ip].ports :
                                                q.service \in TLS_SERVICES
                                                \/ q.port \in TLS_PORTS}}
                     : ip \in DOMAIN scan.hosts})
        \cup
        (IF enum = None THEN {}
         ELSE UNION {{<<ip, enum.hosts[ip].tls[k].port>>
                        : k \in 1..Len(enum.hosts[ip].tls)}
                     : ip \in DOMAIN enum.hosts})

\* line 532: (expiry - utcnow).days, the whole days of the difference,
\* rounded towards minus infinity
DaysLeft(expiry, now) == (expiry - now) \div Day

\* lines 534-544: tier and category by the days left, None for a healthy one
CertClass(days_left) ==
    IF days_left <= 0 THEN [tier |-> "critical", category |-> "cert_expired"]
    ELSE IF days_left <= CERT_CRIT_DAYS THEN [tier |-> "high", category |-> "cert_expiring"]
    ELSE IF days_left <= CERT_WARN_DAYS THEN [tier |-> "medium", category |-> "cert_expiring"]
    ELSE None

\* check_cert_expiry, from the scan and fingerprint files, what openssl
\* prints for each target (nothing, a date that does not parse, the expiry)
\* and the time of the probe
check_cert_expiry(files, certs, now) ==
    LET targets == TlsTargets(files)
        probed == SelectSeq(SeqOf(targets), LAMBDA t :
                     /\ certs[t].answered
                     /\ certs[t].parses
                     /\ CertClass(DaysLeft(certs[t].expiry, now)) # None)
        Days(t) == DaysLeft(certs[t].expiry, now)
    IN  [alerts |-> [k \in 1..Len(probed) |->
                        LET t == probed[k]
                            where == IpStr(t[1]) \o ":" \o ToString(t[2])
                        IN  Alert(CertClass(Days(t)).tier, CertClass(Days(t)).category,
                                  IF Days(t) <= 0
                                  THEN "CERT EXPIRED: " \o where \o " ("
                                           \o ToString(0 - Days(t)) \o "d ago)"
                                  ELSE "Cert expires in " \o ToString(Days(t)) \o "d: "
                                           \o where,
                                  "Expires", IpStr(t[1]))],
         stats |-> [checked |-> Cardinality(targets), expiring |-> Len(probed),
                    status |-> IF \E k \in 1..Len(probed) : Days(probed[k]) <= 0
                               THEN "critical"
                               ELSE IF probed # <<>> THEN "warning" ELSE "ok"]]

\* KNOWN_DHCP_SERVERS, line 63
KNOWN_DHCP_SERVERS == {GATEWAY_IP}

\* check_rogue_dhcp, from the default interface ("" when there is none) and
\* what the discovery printed: whether it is any text at all (run_cmd gives
\* "" when the command fails or times out), and the server identifiers in
\* it.  The code goes through the lines of the output whatever it is.
check_rogue_dhcp(iface, output) ==
    IF iface = "" THEN [alerts |-> <<>>,
                        stats |-> [status |-> "skip", note |-> "no default interface"]]
    ELSE
    LET servers == output.servers
        rogue == SeqOf(servers \ KNOWN_DHCP_SERVERS)
    IN  [alerts |-> [k \in 1..Len(rogue) |->
                        Alert("critical", "rogue_dhcp",
                              "Rogue DHCP server: " \o IpStr(rogue[k]),
                              "Unauthorized DHCP server on LAN!", IpStr(rogue[k]))],
         stats |-> [servers |-> servers, rogue |-> Elems(rogue),
                    status |-> IF rogue # <<>> THEN "critical" ELSE "ok"]]

\* RISKY_PORTS, lines 76-81
RISKY_PORTS ==
    (21 :> "FTP") @@ (23 :> "Telnet") @@ (25 :> "SMTP-relay") @@ (445 :> "SMB")
    @@ (1433 :> "MSSQL") @@ (1521 :> "Oracle") @@ (2049 :> "NFS") @@ (3306 :> "MySQL")
    @@ (3389 :> "RDP") @@ (5432 :> "PostgreSQL") @@ (5900 :> "VNC") @@ (6379 :> "Redis")
    @@ (9200 :> "Elasticsearch") @@ (11211 :> "Memcached") @@ (27017 :> "MongoDB")

\* {p["port"] for p in h.get("ports", [])}
PortsOf(hosts, ip) ==
    IF ip \in DOMAIN hosts THEN {q.port : q \in hosts[ip].ports} ELSE {}

\* (variant: every open risky port is reported, newly opened or not)
NewPortsAll(curr, prev, ip) == PortsOf(curr.hosts, ip)

\* line 620: curr_ports - prev_ports
NewPorts(curr, prev, ip) == PortsOf(curr.hosts, ip) \ PortsOf(prev.hosts, ip)

\* lines 615-630: the (ip, port) pairs of the newly opened risky ports
RECURSIVE RiskyFound(_, _, _)
RiskyFound(curr, prev, ips) ==
    IF ips = <<>> THEN <<>>
    ELSE LET ip == ips[1]
             ports == SeqOf({q \in NewPorts(curr, prev, ip) : q \in DOMAIN RISKY_PORTS})
         IN  [k \in 1..Len(ports) |-> [ip |-> ip, port |-> ports[k]]]
             \o RiskyFound(curr, prev, SubSeq(ips, 2, Len(ips)))

\* check_risky_ports, from the scan files
check_risky_ports(files) ==
    LET two == get_latest_two(files, "scan") IN
    IF two.curr = None \/ two.prev = None
    THEN [alerts |-> <<>>, stats |-> [status |-> "ok"]]
    ELSE
    LET risky_found == RiskyFound(two.curr, two.prev, SeqOf(DOMAIN two.curr.hosts)) IN
    [alerts |-> [k \in 1..Len(risky_found) |->
                    LET ip == risky_found[k].ip
                        port == risky_found[k].port
                    IN  Alert("high", "risky_port",
                              "New " \o RISKY_PORTS[port] \o " (" \o ToString(port)
                                  \o "/tcp) on " \o NameOf(two.curr.hosts[ip], ip),
                              IpStr(ip) \o " - dangerous service newly opened",
                              IpStr(ip))],
     stats |-> [risky_new |-> Len(risky_found),
                status |-> IF risky_found # <<>> THEN "warning" ELSE "ok"]]

\* check_score_trend, from the scan files
check_score_trend(files) ==
    LET two == get_latest_two(files, "scan") IN
    IF two.curr = None \/ two.prev = None
    THEN [alerts |-> <<>>, stats |-> [status |-> "ok"]]
    ELSE
    LET curr == two.curr
        prev == two.prev
        delta == prev.security.avg_score - curr.security.avg_score
        new_crit == curr.security.critical - prev.security.critical
        ScoreBefore(ip) ==
            IF ip \in DOMAIN prev.hosts THEN prev.hosts[ip].security_score ELSE 100
        dropped == SelectSeq(SeqOf(DOMAIN curr.hosts), LAMBDA ip :
                      ScoreBefore(ip) - curr.hosts[ip].security_score >= 20)
        trend ==
            IF delta >= 10 \/ new_crit >= 3
            THEN <<Alert("high", "score_drop",
                         "Security score drop: " \o ToString(prev.security.avg_score)
                             \o "->" \o ToString(curr.security.avg_score),
                         ToString(curr.security.critical) \o " critical hosts", "")>>
            ELSE IF delta >= 5 \/ new_crit >= 1
            THEN <<Alert("medium", "score_drop",
                         "Score dipped: " \o ToString(prev.security.avg_score)
                             \o "->" \o ToString(curr.security.avg_score),
                         ToString(curr.security.critical) \o " critical hosts", "")>>
            ELSE <<>>
    IN  [alerts |-> trend \o
                    [k \in 1..Len(dropped) |->
                        Alert("medium", "host_score_drop",
                              "Score drop on " \o NameOf(curr.hosts[dropped[k]], dropped[k])
                                  \o ": " \o ToString(ScoreBefore(dropped[k])) \o "->"
                                  \o ToString(curr.hosts[dropped[k]].security_score),
                              IpStr(dropped[k]), IpStr(dropped[k]))],
         stats |-> [curr_avg |-> curr.security.avg_score,
                    prev_avg |-> prev.security.avg_score,
                    delta |-> delta, new_critical_hosts |-> new_crit,
                    status |-> IF delta >= 5 THEN "warning" ELSE "ok"]]

----------------------------------------------------------------------------
(* The snapshots of the scanner, as the checks read them *)

\* a host of a network scan, and a network scan
Host(mac, ports, device_type, name, security_score) ==
    [mac |-> mac, ports |-> ports, device_type |-> device_type, name |-> name,
     security_score |-> security_score]
ScanDoc(hosts, avg_score, critical) ==
    [hosts |-> hosts, security |-> [avg_score |-> avg_score, critical |-> critical]]

\* the newest (date 2) and the one before (date 1) of a dataset; a document
\* None stands for no file, Partial for a file that does not parse
TwoFiles(kind, curr, prev) ==
    (IF curr = None THEN EmptyMap ELSE (SnapshotFile(kind, 2) :> curr))
    @@ (IF prev = None THEN EmptyMap ELSE (SnapshotFile(kind, 1) :> prev))

\* an open port of a scan, and the ports of a scan from their numbers
Port(port, service) == [port |-> port, service |-> service]
PortSet(S) == {Port(q, "tcp") : q \in S}

\* a workstation of the network and its MAC
HostE == <<192, 168, 1, 50>>
MacB == [oui |-> "11:22:33", nic |-> 2, upper |-> TRUE]

----------------------------------------------------------------------------
(* The checks.  In this part of the model a check is seen from main(): it  *)
(* returns (alerts, stats) or it raises.  The conditions present on the    *)
(* network (net) decide which alerts a check finds.                        *)

ArpSpoof ==
    [tier |-> "critical", category |-> "arp_anomaly",
     title |-> "ARP change: 192.168.1.10", detail |-> "unknown MAC",
     host |-> "192.168.1.10"]
ArpDupMac ==
    [tier |-> "medium", category |-> "arp_dup_mac",
     title |-> "MAC claimed by 4 IPs", detail |-> "192.168.1.20",
     host |-> "192.168.1.20"]
RiskyRdp ==
    [tier |-> "high", category |-> "risky_port",
     title |-> "New RDP (3389/tcp) on 192.168.1.50",
     detail |-> "192.168.1.50 - dangerous service newly opened",
     host |-> "192.168.1.50"]

Conditions == {ArpSpoof, ArpDupMac, RiskyRdp}

checks_live ==
    <<"check_arp_integrity", "check_dns_integrity", "check_gateway",
      "check_device_availability">>
checks_full ==
    <<"check_rogue_dhcp", "check_vuln_deltas", "check_service_changes",
      "check_cert_expiry", "check_risky_ports", "check_score_trend">>

CheckNames == {checks_live[k] : k \in 1..Len(checks_live)}
                 \cup {checks_full[k] : k \in 1..Len(checks_full)}

\* the checks that raise in the behaviours explored: the first check of the
\* live list, which finds alerts, a later one of that list, which finds none,
\* and one of the full list, which finds alerts
Breakable == {"check_arp_integrity", "check_gateway", "check_risky_ports"}

\* fn.__name__.replace("check_", "")
StatsKey(fn) ==
    CASE fn = "check_arp_integrity" -> "arp_integrity"
      [] fn = "check_dns_integrity" -> "dns_integrity"
      [] fn = "check_gateway" -> "gateway"
      [] fn = "check_device_availability" -> "device_availability"
      [] fn = "check_rogue_dhcp" -> "rogue_dhcp"
      [] fn = "check_vuln_deltas" -> "vuln_deltas"
      [] fn = "check_service_changes" -> "service_changes"
      [] fn = "check_cert_expiry" -> "cert_expiry"
      [] fn = "check_risky_ports" -> "risky_ports"
      [] fn = "check_score_trend" -> "score_trend"

\* the alerts a check can return, in the order it appends them
Pool(fn) ==
    CASE fn = "check_arp_integrity" -> <<ArpSpoof, ArpDupMac>>
      [] fn = "check_risky_ports" -> <<RiskyRdp>>
      [] OTHER -> <<>>

\* the scan snapshots the run finds: the workstation has had SMB open since
\* the scan before, HTTP is open since, and so is RDP when rdp holds
ScanFiles(rdp) ==
    LET since == {80} \cup (IF rdp THEN {3389} ELSE {}) IN
    TwoFiles("scan",
             Complete(ScanDoc((HostE :> Host(MacB, PortSet({445} \cup since), "", "", 100)),
                              90, 0)),
             Complete(ScanDoc((HostE :> Host(MacB, PortSet({445}), "", "", 100)), 90, 0)))

\* what check_risky_ports returns on these snapshots, without and with RDP
\* newly open
RiskyPortsReturn ==
    [quiet |-> check_risky_ports(ScanFiles(FALSE)),
     rdp |-> check_risky_ports(ScanFiles(TRUE))]

\* what a check returns when it does not raise: the alerts it found and its
\* stats.  The risky port check is run on the scan snapshots, where RDP is
\* newly open when the condition RiskyRdp is present.
CheckAlerts(fn, present) ==
    IF fn = "check_risky_ports"
    THEN IF RiskyRdp \in present THEN RiskyPortsReturn.rdp.alerts
                                 ELSE RiskyPortsReturn.quiet.alerts
    ELSE SelectSeq(Pool(fn), LAMBDA a : a \in present)

\* the number of alerts of a tier
CountTier(alerts, tier) == Len(SelectSeq(alerts, LAMBDA a : a.tier = tier))

CheckStatsOf(fn, alerts) ==
    CASE fn = "check_arp_integrity" ->
           LET anomalies == Len(SelectSeq(alerts, LAMBDA a : a.category = "arp_anomaly"))
           IN  [anomalies |-> anomalies,
                status |-> IF \E k \in 1..Len(alerts) : alerts[k].tier = "critical"
                           THEN "critical"
                           ELSE IF anomalies > 0 THEN "warning" ELSE "ok"]
      [] fn = "check_risky_ports" ->
           [risky_new |-> Len(alerts),
            status |-> IF Len(alerts) > 0 THEN "warning" ELSE "ok"]
      [] OTHER -> [status |-> "ok"]

----------------------------------------------------------------------------
(* Alert management (watchdog.py, lines 696-760) *)

DefaultState == [sent_alerts |-> EmptyMap, history |-> <<>>]

\* load_state: load_json(STATE_FILE) or the empty defaults
load_state(f) ==
    LET doc == load_json(f, STATE_FILE) IN IF doc = None THEN DefaultState ELSE doc

\* filter_cooldown: an alert stays when no send of its key is recorded, or the
\* recorded send is before now - 24 h (sent.get(hash, "") < cutoff)
filter_cooldown(alerts, st, now) ==
    LET cutoff == now - ALERT_COOLDOWN_HOURS * Hour
        sent == st.sent_alerts
    IN  SelectSeq(alerts, LAMBDA a :
            \/ alert_hash(a) \notin DOMAIN sent
            \/ sent[alert_hash(a)] < cutoff)

\* main, lines 832-834: the tier counts of the actionable alerts
TierCounts(alerts) ==
    [t \in {"critical", "high", "medium"} |-> CountTier(alerts, t)]

\* (variant: medium alerts count in every mode)
should_send_medium_always(counts, live_only) ==
    \/ counts["critical"] > 0
    \/ counts["high"] > 0
    \/ counts["medium"] > 0

\* main, lines 844-848
should_send(counts, live_only) ==
    \/ counts["critical"] > 0
    \/ counts["high"] > 0
    \/ (~live_only /\ counts["medium"] > 0)

\* build_signal_message: the header and, per tier, the titles of the first
\* six alerts and the number of alerts left out
FirstN(s, n) == SubSeq(s, 1, IF Len(s) < n THEN Len(s) ELSE n)
TitlesOf(alerts) == [k \in 1..Len(alerts) |-> alerts[k].title]
build_signal_message(alerts, mode) ==
    IF alerts = <<>> THEN None
    ELSE [header |-> mode,
          shown |-> [t \in {"critical", "high", "medium"} |->
                       TitlesOf(FirstN(SelectSeq(alerts, LAMBDA a : a.tier = t),
                                     ItemsPerTier))],
          more |-> [t \in {"critical", "high", "medium"} |->
                       Max(0, CountTier(alerts, t) - ItemsPerTier)]]

\* The text of the message, character by character.  A character outside
\* ASCII is written "#", one for each code point, which is what len() counts.
DASHBOARD == "http://192.168.3.151:8888/"

\* str(n) of a natural number, and a number of two digits ("%H", "%M")
Digit(d) == SubSeq("0123456789", d + 1, d + 1)
RECURSIVE Decimal(_)
Decimal(n) == IF n < 10 THEN Digit(n) ELSE Decimal(n \div 10) \o Digit(n % 10)
TwoDigits(n) == Digit((n \div 10) % 10) \o Digit(n % 10)

\* NOW.strftime("%d %b %H:%M"): the day and the month take six characters
\* whatever the date
Strftime(now) ==
    "dd Mon " \o TwoDigits((now % Day) \div Hour) \o ":"
              \o TwoDigits((now % Hour) \div Minute)

\* sep.join(parts)
RECURSIVE Join(_, _)
Join(sep, parts) ==
    IF parts = <<>> THEN ""
    ELSE IF Len(parts) = 1 THEN parts[1]
    ELSE parts[1] \o sep \o Join(sep, Tail(parts))

\* text[:n]
Prefix(text, n) == IF Len(text) <= n THEN text ELSE SubSeq(text, 1, n)

\* lines 729-732: the lines of the items of a tier that are listed
RECURSIVE ItemLines(_, _)
ItemLines(items, tier) ==
    IF items = <<>> THEN <<>>
    ELSE LET a == items[1]
             detail == IF "detail" \in DOMAIN a THEN a.detail ELSE ""
         IN  <<"# " \o a.title>>
             \o (IF detail # "" /\ tier \in {"critical", "high"}
                 THEN <<"  " \o Prefix(detail, 90)>> ELSE <<>>)
             \o ItemLines(Tail(items), tier)

\* lines 725-735: the block of a tier
TierLines(alerts, tier) ==
    LET items == SelectSeq(alerts, LAMBDA a : a.tier = tier)
        icon == CASE tier = "critical" -> "# CRITICAL"
                  [] tier = "high" -> "# HIGH"
                  [] OTHER -> "# CHANGES"
    IN  IF items = <<>> THEN <<>>
        ELSE <<icon>> \o ItemLines(FirstN(items, ItemsPerTier), tier)
             \o (IF Len(items) > ItemsPerTier
                 THEN <<"  #+" \o Decimal(Len(items) - ItemsPerTier) \o " more">>
                 ELSE <<>>)
             \o <<"">>

\* lines 738-743: the integrity summary
IntegrityLine(check_stats) ==
    LET mark(key) == IF /\ key \in DOMAIN check_stats
                        /\ "status" \in DOMAIN check_stats[key]
                        /\ check_stats[key].status = "ok"
                     THEN "#" ELSE "##"
    IN  Join(" # ", <<"ARP:" \o mark("arp_integrity"), "DNS:" \o mark("dns_integrity"),
                      "GW:" \o mark("gateway"), "DHCP:" \o mark("dhcp_integrity")>>)

\* lines 746-751: the summary of the vulnerabilities, when there is one
VulnLines(check_stats) ==
    IF "vuln_delta" \in DOMAIN check_stats /\ "curr_total" \in DOMAIN check_stats["vuln_delta"]
    THEN LET vs == check_stats["vuln_delta"]
             new == IF "new_total" \in DOMAIN vs THEN vs.new_total ELSE 0
             gone == IF "resolved" \in DOMAIN vs THEN vs.resolved ELSE 0
         IN  <<"# Vulns: " \o Decimal(vs.curr_total)
               \o " (+" \o Decimal(new) \o "/#" \o Decimal(gone) \o ")">>
    ELSE <<>>

\* lines 758-759: a message of more than 1500 characters is cut
Truncated(msg) ==
    IF Len(msg) > 1500 THEN Prefix(msg, 1450) \o "\n#(truncated)" ELSE msg

\* build_signal_message, lines 708-760: the text that is sent (None when
\* there is no alert)
SignalText(alerts, check_stats, mode, now) ==
    IF alerts = <<>> THEN None
    ELSE LET header == IF mode = "full" THEN "## WATCHDOG # " \o Strftime(now)
                       ELSE "## WATCHDOG LIVE # " \o Strftime(now)
             parts == <<header, "">>
                      \o TierLines(alerts, "critical")
                      \o TierLines(alerts, "high")
                      \o TierLines(alerts, "medium")
                      \o <<IntegrityLine(check_stats)>>
                      \o VulnLines(check_stats)
                      \o <<"\n# " \o DASHBOARD>>
         IN  [text |-> Truncated(Join("\n", parts))]

\* main, lines 863-864: every actionable alert gets the run's timestamp
RECURSIVE MarkSent(_, _, _)
MarkSent(sent, alerts, stamp) ==
    IF alerts = <<>> THEN sent
    ELSE MarkSent((alert_hash(alerts[1]) :> stamp) @@ sent, Tail(alerts), stamp)

\* (variant: the entries are recorded whatever send_signal returned)
AfterSendUnchecked(st, alerts, ok, stamp) ==
    [st EXCEPT !.sent_alerts = MarkSent(st.sent_alerts, alerts, stamp)]

\* (variant: only the critical and the high alerts get an entry)
AfterSendUrgent(st, alerts, ok, stamp) ==
    LET urgent == SelectSeq(alerts, LAMBDA a : a.tier \in {"critical", "high"})
    IN  IF ok THEN [st EXCEPT !.sent_alerts = MarkSent(st.sent_alerts, urgent, stamp)]
        ELSE st

\* (variant: only the alerts the message lists get an entry)
AfterSendListed(st, alerts, ok, stamp) ==
    LET first(tier) == FirstN(SelectSeq(alerts, LAMBDA b : b.tier = tier), ItemsPerTier)
        listed == SelectSeq(alerts, LAMBDA a :
                      \E k \in 1..Len(first(a.tier)) : first(a.tier)[k] = a)
    IN  IF ok THEN [st EXCEPT !.sent_alerts = MarkSent(st.sent_alerts, listed, stamp)]
        ELSE st

\* main, lines 861-864: the state after send_signal returned ok
AfterSend(st, alerts, ok, stamp) ==
    IF ok THEN [st EXCEPT !.sent_alerts = MarkSent(st.sent_alerts, alerts, stamp)]
    ELSE st

\* (variant: the report counts every alert as actionable)
ReportCountsAll(now, mode, alerts, counts, stats, sent, n_actionable) ==
    [date |-> DateOf(now), run_at |-> IsoSeconds(now), mode |-> mode,
     alerts |-> alerts, alert_counts |-> counts, checks |-> stats,
     signal_sent |-> sent, actionable |-> Len(alerts)]

\* main, lines 871-881: the report of the run
Report(now, mode, alerts, counts, stats, sent, n_actionable) ==
    [date |-> DateOf(now), run_at |-> IsoSeconds(now), mode |-> mode,
     alerts |-> alerts, alert_counts |-> counts, checks |-> stats,
     signal_sent |-> sent, actionable |-> n_actionable]

ReportFile(now) == Path(<<"watchdog", DateOf(now), HHMMOf(now)>>)

\* (variant: the history is not cut)
PushHistoryUncapped(history, entry) == <<entry>> \o history

\* main, lines 889-893: the summary of the run goes to the head of the
\* history, which keeps its first 200 entries
PushHistory(history, entry) == FirstN(<<entry>> \o history, HistoryCap)

\* (variant: nothing is purged)
PurgeSentKeepsAll(sent, now) == sent

\* (variant: the comparison with the cutoff is the other way round)
PurgeSentReversed(sent, now) ==
    LET cutoff == now - ALERT_COOLDOWN_HOURS * 3 * Hour
        keep == {k \in DOMAIN sent : sent[k] < cutoff}
    IN  [k \in keep |-> sent[k]]

\* main, lines 896-899: entries not after now - 72 h are dropped
PurgeSent(sent, now) ==
    LET cutoff == now - ALERT_COOLDOWN_HOURS * 3 * Hour
        keep == {k \in DOMAIN sent : sent[k] > cutoff}
    IN  [k \in keep |-> sent[k]]

\* (variant: the run leaves no trace of itself in the state, it only purges)
UpdateStatePurgeOnly(st, now, mode, counts, sent) ==
    [st EXCEPT !.sent_alerts = PurgeSent(st.sent_alerts, now)]

\* main, lines 887-899: the state as it is saved
UpdateState(st, now, mode, counts, sent) ==
    [last_run |-> IsoSeconds(now),
     last_mode |-> mode,
     history |-> PushHistory(st.history,
                    [ts |-> IsoSeconds(now), mode |-> mode,
                     counts |-> counts, signal |-> sent]),
     sent_alerts |-> PurgeSent(st.sent_alerts, now)]

\* main, lines 904-909: the reports whose date is before now - 30 days
\* (glob "watchdog-*.json": the state file lies one directory up, and a
\* temporary file does not end in .json)
IsReport(path) == ~path.tmp /\ Len(path.name) = 3
Expired(f, now) ==
    {p \in DOMAIN f : IsReport(p) /\ p.name[2] < DateOf(now - RETENTION_DAYS * Day)}

----------------------------------------------------------------------------
(* State *)

VARIABLES
    clock,        \* the wall clock, in ticks
    fs,           \* the files under DATA_DIR: path -> content
    net,          \* the conditions present on the network
    broken,       \* the checks that raise when they are called
    pc,           \* where the run is; "idle", "done", "aborted" between runs
    runs,         \* the runs started so far
    argv,         \* --dry-run and --live-only of the run
    NOW,          \* the instant the run started (module level NOW)
    state,        \* main's state dict
    idx,          \* the position of the next check in the list of the mode
    all_alerts,   \* main's all_alerts
    check_stats,  \* main's check_stats
    actionable,   \* main's actionable
    tier_counts,  \* main's tier_counts
    signal_sent,  \* main's signal_sent
    regen,        \* what became of the dashboard regeneration
    called,       \* the checks called by the run, in order
    outbox,       \* the messages handed to send_signal, with their outcome
    printed,      \* the messages a dry run printed
    loaded,       \* the content of the state file when the run loaded it
    arg,          \* a check called on its own: the check and what it reads
    ret,          \* a check called on its own: what it returned
    procs         \* several processes of main at once: the locals of each

vars == <<clock, fs, net, broken, pc, runs, argv, NOW, state, idx, all_alerts,
          check_stats, actionable, tier_counts, signal_sent, regen, called,
          outbox, printed, loaded, arg, ret, procs>>

locals == <<argv, NOW, state, idx, all_alerts, check_stats, actionable,
            tier_counts, signal_sent, regen, called, loaded>>

\* (variant: --dry-run is not looked at)
dry_run_ignored == FALSE

\* main, lines 768-770
dry_run == argv.dry_run
live_only == argv.live_only
mode == IF live_only THEN "live" ELSE "full"

\* (variant: the full list is run in every mode)
ChecksOfAnyMode(live) == checks_live \o checks_full

\* the checks of the selected mode, in the order main calls them
ChecksOf(live) == IF live THEN checks_live ELSE checks_live \o checks_full

----------------------------------------------------------------------------
(* The persisted data a behaviour starts from: what earlier runs left *)

HalfHour == 30 * Minute

\* the runs before the behaviour starts, as hours before T0, and what each sent
EarlierAlerts(h) ==
    CASE h = 1 -> <<ArpDupMac>>
      [] h = 30 -> <<ArpSpoof>>
      [] h = 73 -> <<RiskyRdp>>
      [] OTHER -> <<>>

EarlierEntry(t, alerts) ==
    [ts |-> t, mode |-> IF alerts = <<>> THEN "live" ELSE "full",
     counts |-> TierCounts(alerts), signal |-> alerts # <<>>]

\* earlier sends: the medium alert 1 h ago, the critical one 30 h ago, the
\* high one 73 h ago, each at the whole second
EarlierSent ==
    (alert_hash(ArpDupMac) :> (T0 - 1 * Hour))
    @@ (alert_hash(ArpSpoof) :> (T0 - 30 * Hour))
    @@ (alert_hash(RiskyRdp) :> (T0 - 73 * Hour))

\* the state three full runs left, each of which sent one alert
EarlierState ==
    [last_run |-> T0 - Hour, last_mode |-> "full",
     history |-> <<EarlierEntry(T0 - 1 * Hour, EarlierAlerts(1)),
                   EarlierEntry(T0 - 30 * Hour, EarlierAlerts(30)),
                   EarlierEntry(T0 - 73 * Hour, EarlierAlerts(73))>>,
     sent_alerts |-> EarlierSent]

\* the state a run every half hour left: a history one short of its cap
LongState ==
    [last_run |-> T0 - HalfHour, last_mode |-> "live",
     history |-> [k \in 1..InitHistoryLen |->
                    IF k % 2 = 0 THEN EarlierEntry(T0 - k * HalfHour, EarlierAlerts(k \div 2))
                    ELSE EarlierEntry(T0 - k * HalfHour, <<>>)],
     sent_alerts |-> EarlierSent]

EarlierReport(t) ==
    Report(t, "live", <<>>, TierCounts(<<>>), EmptyMap, FALSE, 0)

\* a report older than the retention window and one of the day before
EarlierReports ==
    (ReportFile(T0 - 35 * Day) :> Complete(EarlierReport(T0 - 35 * Day)))
    @@ (ReportFile(T0 - Day) :> Complete(EarlierReport(T0 - Day)))

\* no state file yet, or the state of the three earlier runs
InitFs == {EarlierReports, (STATE_FILE :> Complete(EarlierState)) @@ EarlierReports}
LongFs == (STATE_FILE :> Complete(LongState)) @@ EarlierReports

\* the delays between the starts of two runs: a second, a tick more than
\* 24 h after the whole second the earlier run started in, and more than 24 h
Gaps == {Sec, ALERT_COOLDOWN_HOURS * Hour - (StartFrac - 1), ALERT_COOLDOWN_HOURS * Hour + 1}

\* the locals of main before a run has started and after the process has died
NoRun ==
    /\ argv = [dry_run |-> FALSE, live_only |-> FALSE]
    /\ NOW = T0
    /\ state = DefaultState
    /\ idx = 1
    /\ all_alerts = <<>>
    /\ check_stats = EmptyMap
    /\ actionable = <<>>
    /\ tier_counts = TierCounts(<<>>)
    /\ signal_sent = FALSE
    /\ regen = "none"
    /\ called = <<>>
    /\ loaded = None

\* no check is called on its own
NoCall ==
    /\ arg = None
    /\ ret = None

\* main runs in one process at a time
NoProcs == procs = None

\* a behaviour starts from the data of the earlier runs, with any set of
\* conditions on the network; or with checks that raise; or with the long
\* history
Init ==
    /\ clock = T0 + StartFrac
    /\ \/ /\ fs \in InitFs
          /\ net \in SUBSET Conditions
          /\ broken = {}
       \/ /\ fs = EarlierReports
          /\ net = Conditions
          /\ broken \in {S \in SUBSET Breakable : 1 <= Cardinality(S) /\ Cardinality(S) <= MaxRaise}
       \/ /\ fs = LongFs
          /\ net = Conditions
          /\ broken = {}
    /\ pc = "idle"
    /\ runs = 0
    /\ outbox = <<>>
    /\ printed = <<>>
    /\ NoRun
    /\ NoCall
    /\ NoProcs

\* the start of the runs that are followed to their end: every condition is
\* on the network, a state document is on disk, and up to MaxRaise checks raise
LiveInit ==
    /\ clock = T0 + StartFrac
    /\ fs = (STATE_FILE :> Complete(EarlierState)) @@ EarlierReports
    /\ net = Conditions
    /\ broken \in {S \in SUBSET Breakable : Cardinality(S) <= MaxRaise}
    /\ pc = "idle"
    /\ runs = 0
    /\ outbox = <<>>
    /\ printed = <<>>
    /\ NoRun
    /\ NoCall
    /\ NoProcs

----------------------------------------------------------------------------
(* main() *)

\* lines 768-776: the arguments are read, the state is loaded
StartRun ==
    /\ pc \in {"idle", "done"}
    /\ runs < MaxRuns
    /\ \E dry \in BOOLEAN, live \in BOOLEAN, gap \in Gaps :
         /\ argv' = [dry_run |-> dry, live_only |-> live]
         /\ clock' = IF runs = 0 THEN clock ELSE clock + gap
    /\ NOW' = clock'
    /\ runs' = runs + 1
    /\ state' = load_state(fs)
    /\ loaded' = load_json(fs, STATE_FILE)
    /\ idx' = 1
    /\ all_alerts' = <<>>
    /\ check_stats' = EmptyMap
    /\ actionable' = <<>>
    /\ tier_counts' = TierCounts(<<>>)
    /\ signal_sent' = FALSE
    /\ regen' = "none"
    /\ called' = <<>>
    /\ pc' = "check"
    /\ UNCHANGED <<fs, net, broken, arg, ret, procs, outbox, printed>>

\* (variant: the try is around the loop, a check that raises ends it)
NextIndexStopOnRaise(i, raised, n) == IF raised THEN n + 1 ELSE i + 1

\* (variant: the exception of a check is not caught)
PcAfterCheckPropagates(raised) == IF raised THEN "aborted" ELSE "check"

\* lines 789-801, 815-826: the try is inside the loop, so the loop goes on to
\* the next check whether the check returned or raised (n checks in the list)
NextIndex(i, raised, n) == i + 1

\* lines 800-801, 825-826: the exception is logged and the run goes on
PcAfterCheck(raised) == "check"

\* lines 789-826: one turn of the loops over checks_live and checks_full
RunCheck ==
    /\ pc = "check"
    /\ idx <= Len(ChecksOf(live_only))
    /\ LET fn == ChecksOf(live_only)[idx]
           alerts == CheckAlerts(fn, net)
       IN  /\ called' = Append(called, fn)
           /\ \/ /\ fn \notin broken
                 /\ all_alerts' = all_alerts \o alerts
                 /\ check_stats' = (StatsKey(fn) :> CheckStatsOf(fn, alerts)) @@ check_stats
              \/ /\ fn \in broken          \* except Exception: logged
                 /\ UNCHANGED <<all_alerts, check_stats>>
           /\ idx' = NextIndex(idx, fn \in broken, Len(ChecksOf(live_only)))
           /\ pc' = PcAfterCheck(fn \in broken)
    /\ UNCHANGED <<clock, fs, net, broken, arg, ret, procs, runs, argv, NOW, state, actionable,
                   tier_counts, signal_sent, regen, outbox, printed, loaded>>

\* lines 830-834: the cooldown filter and the tier counts
FilterCooldown ==
    /\ pc = "check"
    /\ idx > Len(ChecksOf(live_only))
    /\ actionable' = filter_cooldown(all_alerts, state, NOW)
    /\ tier_counts' = TierCounts(actionable')
    /\ pc' = "send"
    /\ UNCHANGED <<clock, fs, net, broken, arg, ret, procs, runs, argv, NOW, state, idx, all_alerts,
                   check_stats, signal_sent, regen, called, outbox, printed, loaded>>

WillSend ==
    /\ should_send(tier_counts, live_only)
    /\ actionable # <<>>
    /\ build_signal_message(actionable, mode) # None

\* lines 854-858: --dry-run prints the message
DryRunPrint ==
    /\ pc = "send"
    /\ WillSend
    /\ dry_run
    /\ printed' = Append(printed,
           [run |-> runs, msg |-> build_signal_message(actionable, mode),
            keys |-> {alert_hash(actionable[k]) : k \in 1..Len(actionable)}])
    /\ pc' = "report"
    /\ UNCHANGED <<clock, fs, net, broken, arg, ret, procs, runs, argv, NOW, state, idx, all_alerts,
                   check_stats, actionable, tier_counts, signal_sent, regen, called,
                   outbox, loaded>>

\* lines 860-865: send_signal, and on success the cooldown entries
SendSignal ==
    /\ pc = "send"
    /\ WillSend
    /\ ~dry_run
    /\ \E ok \in BOOLEAN :
         /\ signal_sent' = ok
         /\ outbox' = Append(outbox,
                [run |-> runs, at |-> NOW, delivered |-> ok,
                 msg |-> build_signal_message(actionable, mode),
                 keys |-> {alert_hash(actionable[k]) : k \in 1..Len(actionable)}])
         /\ state' = AfterSend(state, actionable, ok, IsoSeconds(NOW))
    /\ pc' = "report"
    /\ UNCHANGED <<clock, fs, net, broken, arg, ret, procs, runs, argv, NOW, idx, all_alerts,
                   check_stats, actionable, tier_counts, regen, called, printed, loaded>>

\* lines 866-867: nothing to send
AllClear ==
    /\ pc = "send"
    /\ ~WillSend
    /\ pc' = "report"
    /\ UNCHANGED <<clock, fs, net, broken, arg, ret, procs, runs, argv, NOW, state, idx, all_alerts,
                   check_stats, actionable, tier_counts, signal_sent, regen, called,
                   outbox, printed, loaded>>

\* lines 871-880: the report dict of the run
TheReport ==
    Report(NOW, mode, all_alerts, tier_counts, check_stats, signal_sent,
           Len(actionable))

\* save_json in three steps: the temporary file is opened and partly written,
\* the document is complete in it, the temporary file replaces the target
SaveOpen(path, data, at, next) ==
    /\ pc = at
    /\ fs' = FsOpenWrite(fs, TmpPath(path), data)
    /\ pc' = next

SaveDump(path, data, at, next) ==
    /\ pc = at
    /\ fs' = FsDump(fs, TmpPath(path), data)
    /\ pc' = next

SaveReplace(path, at, next) ==
    /\ pc = at
    /\ fs' = FsReplace(fs, TmpPath(path), path)
    /\ pc' = next

\* line 882: save_json(report_file, report)
ReportOpen ==
    /\ SaveOpen(ReportFile(NOW), TheReport, "report", "report_dump")
    /\ UNCHANGED <<clock, net, broken, arg, ret, procs, runs, outbox, printed, locals>>

ReportDump ==
    /\ SaveDump(ReportFile(NOW), TheReport, "report_dump", "report_replace")
    /\ UNCHANGED <<clock, net, broken, arg, ret, procs, runs, outbox, printed, locals>>

ReportReplace ==
    /\ SaveReplace(ReportFile(NOW), "report_replace", "update")
    /\ UNCHANGED <<clock, net, broken, arg, ret, procs, runs, outbox, printed, locals>>

\* lines 887-899: last run, history and purge, in memory
UpdateHistory ==
    /\ pc = "update"
    /\ state' = UpdateState(state, NOW, mode, tier_counts, signal_sent)
    /\ pc' = "state"
    /\ UNCHANGED <<clock, fs, net, broken, arg, ret, procs, runs, argv, NOW, idx, all_alerts,
                   check_stats, actionable, tier_counts, signal_sent, regen, called,
                   outbox, printed, loaded>>

\* line 900: save_state(state)
StateOpen ==
    /\ SaveOpen(STATE_FILE, state, "state", "state_dump")
    /\ UNCHANGED <<clock, net, broken, arg, ret, procs, runs, outbox, printed, locals>>

StateDump ==
    /\ SaveDump(STATE_FILE, state, "state_dump", "state_replace")
    /\ UNCHANGED <<clock, net, broken, arg, ret, procs, runs, outbox, printed, locals>>

StateReplace ==
    /\ SaveReplace(STATE_FILE, "state_replace", "retention")
    /\ UNCHANGED <<clock, net, broken, arg, ret, procs, runs, outbox, printed, locals>>

\* lines 904-909: reports older than the retention window are removed
Retention ==
    /\ pc = "retention"
    /\ fs' = [p \in DOMAIN fs \ Expired(fs, NOW) |-> fs[p]]
    /\ pc' = "dashboard"
    /\ UNCHANGED <<clock, net, broken, arg, ret, procs, runs, outbox, printed, locals>>

\* lines 913-921: the dashboard is regenerated when the run has alerts and is
\* no dry run; a failure or a timeout of the generator is swallowed
RegenerateDashboard ==
    /\ pc = "dashboard"
    /\ all_alerts # <<>> /\ ~dry_run
    /\ \E outcome \in {"updated", "failed"} : regen' = outcome
    /\ pc' = "done"
    /\ UNCHANGED <<clock, fs, net, broken, arg, ret, procs, runs, argv, NOW, state, idx, all_alerts,
                   check_stats, actionable, tier_counts, signal_sent, called,
                   outbox, printed, loaded>>

SkipDashboard ==
    /\ pc = "dashboard"
    /\ ~(all_alerts # <<>> /\ ~dry_run)
    /\ regen' = "skipped"
    /\ pc' = "done"
    /\ UNCHANGED <<clock, fs, net, broken, arg, ret, procs, runs, argv, NOW, state, idx, all_alerts,
                   check_stats, actionable, tier_counts, signal_sent, called,
                   outbox, printed, loaded>>

Running == pc \notin {"idle", "done", "aborted"}

\* the process is killed, or a file operation of main raises: the run ends
\* where it is, its memory is gone, and what it left on disk stays
Abort ==
    /\ Running
    /\ pc' = "aborted"
    /\ argv' = [dry_run |-> FALSE, live_only |-> FALSE]
    /\ NOW' = T0
    /\ state' = DefaultState
    /\ idx' = 1
    /\ all_alerts' = <<>>
    /\ check_stats' = EmptyMap
    /\ actionable' = <<>>
    /\ tier_counts' = TierCounts(<<>>)
    /\ signal_sent' = FALSE
    /\ regen' = "none"
    /\ called' = <<>>
    /\ loaded' = None
    /\ UNCHANGED <<clock, fs, net, broken, arg, ret, procs, runs, outbox, printed>>

Step ==
    \/ StartRun
    \/ RunCheck
    \/ FilterCooldown
    \/ DryRunPrint
    \/ SendSignal
    \/ AllClear
    \/ ReportOpen
    \/ ReportDump
    \/ ReportReplace
    \/ UpdateHistory
    \/ StateOpen
    \/ StateDump
    \/ StateReplace
    \/ Retention
    \/ RegenerateDashboard
    \/ SkipDashboard

Next == Step \/ Abort

Spec == Init /\ [][Next]_vars

\* the runs when nothing kills the process and the disk takes the writes:
\* every step the run can take is taken in the end
LiveSpec == LiveInit /\ [][Step]_vars /\ WF_vars(Step)

----------------------------------------------------------------------------
(* The reader and the checks called on their own: arg holds what the call  *)
(* reads (the files under DATA_DIR, the answers of the probes), ret what   *)
(* it returned.                                                            *)

\* no run of main is going on
Idle ==
    /\ clock = T0
    /\ fs = EmptyMap
    /\ net = {}
    /\ broken = {}
    /\ pc = "idle"
    /\ runs = 0
    /\ outbox = <<>>
    /\ printed = <<>>
    /\ NoRun

mainvars == <<clock, fs, net, broken, pc, runs, outbox, printed, locals, procs>>

\* the dated files of one dataset: any set of the dates 1..MaxFiles, each file
\* parsable or cut short, the document of a file naming its date
Listings(kind) ==
    UNION {{[q \in {SnapshotFile(kind, d) : d \in S} |->
                IF d_ok[q.name[2]] THEN Complete([date |-> q.name[2]])
                                   ELSE Partial([date |-> q.name[2]])]
            : d_ok \in [S -> BOOLEAN]}
           : S \in SUBSET (1..MaxFiles)}

\* other files in the directory: a newer file of another dataset and the
\* temporary file of a newer snapshot
OtherFiles ==
    (SnapshotFile("vuln", MaxFiles + 1) :> Complete([date |-> MaxFiles + 1]))
    @@ (TmpPath(SnapshotFile("scan", MaxFiles + 1)) :> Partial([date |-> MaxFiles + 1]))

ReaderArgs ==
    {[fn |-> "get_latest_two", kind |-> "scan", files |-> l @@ o]
        : l \in Listings("scan"), o \in {EmptyMap, OtherFiles}}

HostA == <<192, 168, 1, 10>>
HostB == <<192, 168, 1, 20>>
HostC == <<192, 168, 1, 30>>
HostD == <<192, 168, 1, 40>>
Elsewhere == <<10, 0, 0, 5>>

MacA == [oui |-> "AA:BB:CC", nic |-> 1, upper |-> TRUE]
MacNew == [oui |-> "DE:AD:BE", nic |-> 3, upper |-> TRUE]
Lower(mac) == [mac EXCEPT !.upper = FALSE]

PlainHost(mac) == Host(mac, {}, "", "", 100)

\* the scans the ARP check is given: both hosts with their MAC; host A with
\* its MAC in lower case and host B without one; each after an older scan
\* that recorded another MAC for host A
ArpScans ==
    LET older == Complete(ScanDoc((HostA :> PlainHost(MacNew)), 90, 0)) IN
    {EmptyMap,
     TwoFiles("scan", Partial(ScanDoc(EmptyMap, 90, 0)), older),
     TwoFiles("scan", Complete(ScanDoc((HostA :> PlainHost(MacA))
                                       @@ (HostB :> PlainHost(MacB)), 90, 0)), older),
     TwoFiles("scan", Complete(ScanDoc((HostA :> PlainHost(Lower(MacA)))
                                       @@ (HostB :> PlainHost(NoMac)), 90, 0)), older)}

\* the neighbor tables: at most one entry for each of host A, host B and an
\* address of another network; and one MAC on four addresses
Neigh(ip, mac, st) == [ip |-> ip, mac |-> mac, state |-> st]
NeighA ==
    {<<>>} \cup {<<Neigh(HostA, m, st)>> :
                    m \in {MacA, Lower(MacA), MacB, MacNew},
                    st \in {"REACHABLE", "FAILED"}}
NeighB == {<<>>} \cup {<<Neigh(HostB, m, "STALE")>> : m \in {MacA, MacB, MacNew}}
NeighElsewhere == {<<>>, <<Neigh(Elsewhere, MacNew, "REACHABLE")>>}
NeighTables ==
    {a \o b \o x : a \in NeighA, b \in NeighB, x \in NeighElsewhere}
    \cup {<<Neigh(HostA, MacB, "REACHABLE"), Neigh(HostB, MacB, "REACHABLE"),
            Neigh(HostC, MacB, "STALE"), Neigh(HostD, MacB, "DELAY")>>}

ArpArgs ==
    {[fn |-> "check_arp_integrity", files |-> f, neigh |-> n]
        : f \in ArpScans, n \in NeighTables}

\* what the resolver answers for a target: a public address, an address of
\* the LAN, both, or no answer
DnsAnswer(gaierror, addrs) == [gaierror |-> gaierror, addrs |-> addrs]
DnsAnswers ==
    {DnsAnswer(TRUE, {}), DnsAnswer(FALSE, {<<142, 250, 1, 1>>}),
     DnsAnswer(FALSE, {HostA}), DnsAnswer(FALSE, {<<142, 250, 1, 1>>, HostA})}
DnsArgs ==
    {[fn |-> "check_dns_integrity", answers |-> a]
        : a \in [Elems(DNS_TARGETS) -> DnsAnswers]}

GatewayArgs ==
    {[fn |-> "check_gateway", ping |-> p, gw |-> g, one |-> o, eight |-> e]
        : p \in {"iputils", "busybox"}, g \in BOOLEAN, o \in BOOLEAN, e \in BOOLEAN}

\* the scans the device check is given: a server, a workstation and a switch
\* without a name; the same with the gateway listed as network equipment
DeviceHosts ==
    (HostA :> Host(MacA, {}, "server", "nas", 100))
    @@ (HostB :> Host(MacB, {}, "workstation", "desk", 100))
    @@ (HostC :> Host(MacNew, {}, "network", "", 100))
DeviceScans ==
    {EmptyMap,
     TwoFiles("scan", Partial(ScanDoc(DeviceHosts, 90, 0)),
                      Complete(ScanDoc(DeviceHosts, 90, 0))),
     TwoFiles("scan", Complete(ScanDoc(DeviceHosts, 90, 0)), None),
     TwoFiles("scan", Complete(ScanDoc(DeviceHosts
                  @@ (GATEWAY_IP :> Host(MacB, {}, "network", "router", 100)), 90, 0)),
              None)}
DeviceArgs ==
    {[fn |-> "check_device_availability", files |-> f, answering |-> a]
        : f \in DeviceScans, a \in SUBSET {HostA, HostB, HostC, GATEWAY_IP}}

\* findings: two critical ones of one type on two ports, a high one, two
\* medium ones, a low one, and the first critical one as it was rated before
Finding(type, port, cve, severity) ==
    [type |-> type, port |-> port, cve |-> cve, severity |-> severity,
     detail |-> type]
WeakSsh == Finding("weak-ssh", 22, "", "critical")
WeakSshAlt == Finding("weak-ssh", 2222, "", "critical")
WeakSshBefore == Finding("weak-ssh", 22, "", "high")
HttpCve == Finding("http-cve", 80, "CVE-2024-0001", "high")
OldTls == Finding("old-tls", 443, "", "medium")
OpenSmb == Finding("smb-signing", 445, "", "medium")
Banner == Finding("banner", 80, "", "low")

\* the findings of a set, in a fixed order
ListOf(S) ==
    SelectSeq(<<WeakSsh, WeakSshAlt, WeakSshBefore, HttpCve, OldTls, OpenSmb, Banner>>,
              LAMBDA f : f \in S)

VulnHost(name, S) ==
    [name |-> name, findings |-> ListOf(S), finding_count |-> Cardinality(S)]
VulnDoc(hosts, avg_risk_score) ==
    [hosts |-> hosts,
     stats |-> [avg_risk_score |-> avg_risk_score, total_findings |-> 0]]

\* the two snapshots: host A with any of four findings now and some of them
\* before, host B with any of three now and absent, clean or with one before
VulnPairs ==
    {[curr |-> VulnDoc((HostA :> VulnHost("nas", ca)) @@ (HostB :> VulnHost("desk", cb)), 20),
      prev |-> VulnDoc((HostA :> VulnHost("nas", pa)) @@ pb, 20)]
        : ca \in SUBSET {WeakSsh, WeakSshAlt, HttpCve, OldTls},
          pa \in {{}, {WeakSsh}, {OldTls}, {WeakSsh, OldTls}, {WeakSshBefore}},
          cb \in SUBSET {OldTls, OpenSmb, Banner},
          pb \in {EmptyMap, (HostB :> VulnHost("desk", {})),
                  (HostB :> VulnHost("desk", {OldTls}))}}

\* the average risk scores of two snapshots without findings
RiskScores == {10, 15, 20, 25, 30}
RiskPairs ==
    {[curr |-> VulnDoc(EmptyMap, c), prev |-> VulnDoc(EmptyMap, q)]
        : c \in RiskScores, q \in RiskScores}

\* the current and the previous snapshot, each there and parsable, there
\* and cut short, or not there
Presence(kind, curr, prev) ==
    {TwoFiles(kind, c, q) : c \in {None, Partial(curr), Complete(curr)},
                            q \in {None, Partial(prev), Complete(prev)}}

VulnArgs ==
    {[fn |-> "check_vuln_deltas",
      files |-> TwoFiles("vuln", Complete(v.curr), Complete(v.prev))]
        : v \in VulnPairs \cup RiskPairs}
    \cup {[fn |-> "check_vuln_deltas", files |-> f]
            : f \in Presence("vuln", VulnDoc((HostA :> VulnHost("nas", {WeakSsh})), 20),
                                      VulnDoc((HostA :> VulnHost("nas", {})), 20))}

\* fingerprint snapshots: host A with a fingerprint and a Server header on
\* port 80 that stay, change, or are not there; before, host A with or
\* without a fingerprint and two ports, or no host A
EnumHost(fingerprint, http, tls) ==
    [fingerprint |-> fingerprint, http |-> http, tls |-> tls]
Http(port, server) == [port |-> port, server |-> server]
EnumDoc(hosts) == [hosts |-> hosts]
EnumPairs ==
    {[curr |-> EnumDoc((HostA :> EnumHost(cf, <<Http(80, cs)>>, <<>>))),
      prev |-> EnumDoc(q)]
        : cf \in {"", "nginx/1.24", "nginx/1.26"},
          cs \in {"", "Apache/2.4.57", "Apache/2.4.58"},
          q \in {EmptyMap}
                 \cup {(HostA :> EnumHost(pf, <<Http(80, "Apache/2.4.57"),
                                                Http(8080, "Apache/2.4.58")>>, <<>>))
                        : pf \in {"", "nginx/1.24"}}}
ServiceArgs ==
    {[fn |-> "check_service_changes",
      files |-> TwoFiles("enum", Complete(e.curr), Complete(e.prev))] : e \in EnumPairs}
    \cup {[fn |-> "check_service_changes", files |-> f]
            : f \in Presence("enum", EnumDoc((HostA :> EnumHost("nginx/1.26", <<>>, <<>>))),
                                      EnumDoc((HostA :> EnumHost("nginx/1.24", <<>>, <<>>))))}

\* the TLS targets: port 443 of host A from the scan (its port 22 is none),
\* port 8443 of host B from the fingerprint snapshot
TlsFiles ==
    {TwoFiles("scan", Complete(ScanDoc(
                  (HostA :> Host(MacA, {Port(443, "https"), Port(22, "ssh")}, "server",
                                 "nas", 100)), 90, 0)), None)
        @@ e : e \in {EmptyMap,
                       TwoFiles("enum", Complete(EnumDoc(
                           (HostB :> EnumHost("", <<>>, <<[port |-> 8443]>>)))), None)}}

\* what openssl gives for a target: nothing, a date that does not parse, or
\* the expiry, here from two days before the probe to past MaxDaysLeft days
\* after it, in steps of half a day
Cert(answered, parses, expiry) ==
    [answered |-> answered, parses |-> parses, expiry |-> expiry]
HalfDay == Day \div 2
CertsA ==
    {Cert(FALSE, FALSE, T0), Cert(TRUE, FALSE, T0)}
    \cup {Cert(TRUE, TRUE, T0 + k * HalfDay) : k \in (0 - 4)..(2 * MaxDaysLeft + 3)}
CertsB == {Cert(FALSE, FALSE, T0), Cert(TRUE, TRUE, T0 + 20 * Day)}
CertArgs ==
    {[fn |-> "check_cert_expiry", files |-> f, now |-> T0,
      certs |-> (<<HostA, 443>> :> a) @@ (<<HostB, 8443>> :> b)]
        : f \in TlsFiles, a \in CertsA, b \in CertsB}

\* the DHCP discovery: no default interface or eth0; no output at all, or
\* the output of a discovery that heard any of the gateway and two others
DhcpOutput(text, servers) == [text |-> text, servers |-> servers]
DhcpArgs ==
    {[fn |-> "check_rogue_dhcp", iface |-> i, output |-> o]
        : i \in {"", "eth0"},
          o \in {DhcpOutput(FALSE, {})}
                 \cup {DhcpOutput(TRUE, S) : S \in SUBSET {GATEWAY_IP, HostC, HostD}}}

\* two scans: host E with any of the ports 80, 445 and 3389 open now and
\* absent or with any of 80 and 3389 before; host A with telnet now or not
PortPairs ==
    {[curr |-> ScanDoc((HostE :> Host(MacB, PortSet(ce), "", "", 100))
                       @@ (HostA :> Host(MacA, PortSet(ca), "server", "nas", 100)), 90, 0),
      prev |-> ScanDoc(pe @@ (HostA :> Host(MacA, {}, "server", "nas", 100)), 90, 0)]
        : ce \in SUBSET {80, 445, 3389},
          ca \in {{}, {23}},
          pe \in {EmptyMap} \cup {(HostE :> Host(MacB, PortSet(q), "", "", 100))
                                    : q \in SUBSET {80, 3389}}}
RiskyArgs ==
    {[fn |-> "check_risky_ports",
      files |-> TwoFiles("scan", Complete(x.curr), Complete(x.prev))] : x \in PortPairs}
    \cup {[fn |-> "check_risky_ports", files |-> f]
            : f \in Presence("scan",
                   ScanDoc((HostE :> Host(MacB, PortSet({3389}), "", "", 100)), 90, 0),
                   ScanDoc((HostE :> Host(MacB, {}, "", "", 100)), 90, 0))}

\* two scans: the average score and the number of critical hosts now, after
\* an average of 80 and no critical host; host A at 100 or absent before and
\* at 100, 81 or 80 now
ScorePairs ==
    {[curr |-> ScanDoc((HostA :> Host(MacA, {}, "server", "nas", sa)), avg, crit),
      prev |-> ScanDoc(q, 80, 0)]
        : avg \in {69, 70, 71, 75, 76, 80, 90},
          crit \in {0, 1, 2, 3},
          sa \in {100, 81, 80},
          q \in {EmptyMap, (HostA :> Host(MacA, {}, "server", "nas", 100))}}
ScoreArgs ==
    {[fn |-> "check_score_trend",
      files |-> TwoFiles("scan", Complete(x.curr), Complete(x.prev))] : x \in ScorePairs}
    \cup {[fn |-> "check_score_trend", files |-> f]
            : f \in Presence("scan",
                   ScanDoc((HostA :> Host(MacA, {}, "server", "nas", 60)), 60, 3),
                   ScanDoc((HostA :> Host(MacA, {}, "server", "nas", 100)), 80, 0))}

\* the cooldown filter: the ARP alert was sent 1, 23, 24 or 25 hours ago or
\* never; the run finds two alerts, each the ARP alert or the ARP alert with
\* another category, host, title, tier or detail
AlertLike ==
    {ArpSpoof,
     [ArpSpoof EXCEPT !.category = "arp_dup_mac"],
     [ArpSpoof EXCEPT !.host = "192.168.1.20"],
     [ArpSpoof EXCEPT !.title = "ARP change: 192.168.1.10 (2 MACs)"],
     [ArpSpoof EXCEPT !.tier = "high"],
     [ArpSpoof EXCEPT !.detail = "MAC of 192.168.1.20"]}
CooldownArgs ==
    {[fn |-> "filter_cooldown", sent |-> q, sent_at |-> T0 - h * Hour, now |-> T0,
      alerts |-> <<a, b>>]
        : q \in {<<>>, <<ArpSpoof>>}, h \in {1, 23, 24, 25},
          a \in AlertLike, b \in AlertLike}

\* the alerts of a busy day: n alerts of one tier, with short or long titles
LongTail ==
    " - a title that runs on and on, as the title of a certificate with its"
    \o " subject, its issuer, its serial number and the list of its names does"
    \o " when it is put whole into the alert by the check that has found it"
Burst(n, tier, long) ==
    [k \in 1..n |->
        [tier |-> tier, category |-> "new_port",
         title |-> "New port 80" \o Decimal(k) \o "/tcp"
                   \o (IF long THEN LongTail ELSE ""),
         detail |-> "192.168.1." \o Decimal(k) \o " - service newly opened",
         host |-> "192.168.1." \o Decimal(k)]]
SendArgs ==
    {[fn |-> "send", alerts |-> Burst(n, tier, long), live_only |-> live,
      ok |-> ok, now |-> T0 + 9 * Hour + 5 * Minute]
        : n \in {1, 5, 6, 7, 8}, tier \in {"critical", "high", "medium"},
          long \in BOOLEAN, live \in BOOLEAN, ok \in BOOLEAN}

CheckArgs ==
    ReaderArgs \cup ArpArgs \cup DnsArgs \cup GatewayArgs \cup DeviceArgs
        \cup VulnArgs \cup ServiceArgs \cup CertArgs \cup DhcpArgs \cup RiskyArgs
        \cup ScoreArgs \cup CooldownArgs \cup SendArgs

CheckInit ==
    /\ Idle
    /\ NoProcs
    /\ arg \in CheckArgs
    /\ ret = None

Call_get_latest_two ==
    /\ arg.fn = "get_latest_two"
    /\ ret = None
    /\ ret' = get_latest_two(arg.files, arg.kind)
    /\ UNCHANGED <<arg, mainvars>>

Call_check_arp_integrity ==
    /\ arg.fn = "check_arp_integrity"
    /\ ret = None
    /\ ret' = check_arp_integrity(arg.files, arg.neigh)
    /\ UNCHANGED <<arg, mainvars>>

Call_check_dns_integrity ==
    /\ arg.fn = "check_dns_integrity"
    /\ ret = None
    /\ ret' = check_dns_integrity(arg.answers)
    /\ UNCHANGED <<arg, mainvars>>

Call_check_gateway ==
    /\ arg.fn = "check_gateway"
    /\ ret = None
    /\ ret' = check_gateway(arg.ping, arg.gw, arg.one, arg.eight)
    /\ UNCHANGED <<arg, mainvars>>

Call_check_device_availability ==
    /\ arg.fn = "check_device_availability"
    /\ ret = None
    /\ ret' = check_device_availability(arg.files, arg.answering)
    /\ UNCHANGED <<arg, mainvars>>

Call_check_vuln_deltas ==
    /\ arg.fn = "check_vuln_deltas"
    /\ ret = None
    /\ ret' = check_vuln_deltas(arg.files)
    /\ UNCHANGED <<arg, mainvars>>

Call_check_service_changes ==
    /\ arg.fn = "check_service_changes"
    /\ ret = None
    /\ ret' = check_service_changes(arg.files)
    /\ UNCHANGED <<arg, mainvars>>

Call_check_cert_expiry ==
    /\ arg.fn = "check_cert_expiry"
    /\ ret = None
    /\ ret' = check_cert_expiry(arg.files, arg.certs, arg.now)
    /\ UNCHANGED <<arg, mainvars>>

Call_check_rogue_dhcp ==
    /\ arg.fn = "check_rogue_dhcp"
    /\ ret = None
    /\ ret' = check_rogue_dhcp(arg.iface, arg.output)
    /\ UNCHANGED <<arg, mainvars>>

Call_check_risky_ports ==
    /\ arg.fn = "check_risky_ports"
    /\ ret = None
    /\ ret' = check_risky_ports(arg.files)
    /\ UNCHANGED <<arg, mainvars>>

Call_check_score_trend ==
    /\ arg.fn = "check_score_trend"
    /\ ret = None
    /\ ret' = check_score_trend(arg.files)
    /\ UNCHANGED <<arg, mainvars>>

\* filter_cooldown on the state left by a delivered send of arg.sent at
\* arg.sent_at (main, lines 863-864)
Call_filter_cooldown ==
    /\ arg.fn = "filter_cooldown"
    /\ ret = None
    /\ ret' = [alerts |->
                 filter_cooldown(arg.alerts,
                                 AfterSend(DefaultState, arg.sent, TRUE, arg.sent_at),
                                 arg.now)]
    /\ UNCHANGED <<arg, mainvars>>

\* main, lines 844-865, without --dry-run: the decision, the message, the
\* send, and the entries of the alerts
Call_send ==
    /\ arg.fn = "send"
    /\ ret = None
    /\ LET the_mode == IF arg.live_only THEN "live" ELSE "full"
           attempted == /\ should_send(TierCounts(arg.alerts), arg.live_only)
                        /\ arg.alerts # <<>>
           msg == IF attempted THEN SignalText(arg.alerts, EmptyMap, the_mode, arg.now)
                  ELSE None
           sent == attempted /\ msg # None /\ arg.ok
       IN  ret' = [msg |-> msg, signal_sent |-> sent,
                   state |-> AfterSend(DefaultState, arg.alerts, sent,
                                       IsoSeconds(arg.now))]
    /\ UNCHANGED <<arg, mainvars>>

CheckNext ==
    \/ Call_get_latest_two
    \/ Call_check_arp_integrity
    \/ Call_check_dns_integrity
    \/ Call_check_gateway
    \/ Call_check_device_availability
    \/ Call_check_vuln_deltas
    \/ Call_check_service_changes
    \/ Call_check_cert_expiry
    \/ Call_check_rogue_dhcp
    \/ Call_check_risky_ports
    \/ Call_check_score_trend
    \/ Call_filter_cooldown
    \/ Call_send

CheckSpec == CheckInit /\ [][CheckNext]_vars

----------------------------------------------------------------------------
(* Several processes of main(): cron and a hand-started run, or a run after *)
(* one that died.  Each process goes through main in four steps: it loads  *)
(* the state (lines 772-773), runs the checks and notifies (lines 789-867), *)
(* writes its report (lines 871-882) and saves the state (lines 887-900).  *)

Procs == 1..MaxProcs

\* a process that has not started
NotStarted ==
    [pc |-> "idle", argv |-> [dry_run |-> FALSE, live_only |-> FALSE], NOW |-> T0,
     loaded |-> DefaultState, state |-> DefaultState, all_alerts |-> <<>>,
     check_stats |-> EmptyMap, actionable |-> <<>>, signal_sent |-> FALSE,
     began |-> 0, saved_as |-> 0, dead |-> {}]

\* lines 789-826: the alerts and the stats of the checks of a list
RECURSIVE AlertsOfChecks(_, _)
AlertsOfChecks(checks, present) ==
    IF checks = <<>> THEN <<>>
    ELSE CheckAlerts(checks[1], present) \o AlertsOfChecks(Tail(checks), present)
RECURSIVE StatsOfChecks(_, _)
StatsOfChecks(checks, present) ==
    IF checks = <<>> THEN EmptyMap
    ELSE StatsOfChecks(Tail(checks), present)
         @@ (StatsKey(checks[1]) :> CheckStatsOf(checks[1], CheckAlerts(checks[1], present)))

ModeOf(r) == IF r.argv.live_only THEN "live" ELSE "full"

\* (variant: the document on disk is merged into the one that is saved)
StateToSaveMerged(own, f) ==
    LET disk == load_state(f) IN
    [own EXCEPT !.sent_alerts = own.sent_alerts @@ disk.sent_alerts,
                !.history = <<own.history[1]>> \o disk.history]

\* save_state, lines 699-700: the state of the process goes to the file as
\* it is, whatever the file holds
StateToSave(own, f) == own

\* the data the processes start from: the state of three earlier runs, every
\* condition on the network, no check that raises
ProcInit ==
    /\ clock = T0
    /\ fs = (STATE_FILE :> Complete(EarlierState))
    /\ net = Conditions
    /\ broken = {}
    /\ pc = "idle"
    /\ runs = 0
    /\ outbox = <<>>
    /\ printed = <<>>
    /\ NoRun
    /\ NoCall
    /\ procs = [p \in Procs |-> NotStarted]

\* the saves made so far; a process keeps their number as it loads (began)
\* with the processes that have died by then (dead), and the rank of its own
\* save (saved_as)
Saves == Cardinality({p \in Procs : procs[p].pc = "done"})

\* lines 768-773: a process starts, a second after the one before it, and
\* loads the state
ProcLoad ==
    \E p \in Procs, live \in BOOLEAN :
        /\ procs[p].pc = "idle"
        /\ IF p = 1 THEN TRUE ELSE procs[p - 1].pc # "idle"
        /\ clock' = clock + Sec
        /\ procs' = [procs EXCEPT
              ![p] = [NotStarted EXCEPT
                         !.pc = "loaded",
                         !.argv = [dry_run |-> FALSE, live_only |-> live],
                         !.NOW = clock',
                         !.loaded = load_state(fs),
                         !.state = load_state(fs),
                         !.began = Saves,
                         !.dead = {d \in Procs : procs[d].pc = "aborted"}]]
        /\ UNCHANGED <<fs, net, broken, pc, runs, outbox, printed, locals, arg, ret>>

\* (variant: the state is saved as soon as the entries are recorded)
FilesAfterSendSaved(st, f) == (STATE_FILE :> Complete(st)) @@ f

\* main, lines 861-865: the entries are recorded in the state of the process
\* and the files are left as they are
FilesAfterSend(st, f) == f

\* lines 789-867: the checks, the cooldown filter, and the send with the
\* cooldown entries when it was delivered
ProcNotify ==
    \E p \in Procs :
        LET r == procs[p]
            alerts == AlertsOfChecks(ChecksOf(r.argv.live_only), net)
            act == filter_cooldown(alerts, r.state, r.NOW)
            after(ok) == [r EXCEPT !.pc = "notified",
                                   !.all_alerts = alerts,
                                   !.check_stats = StatsOfChecks(ChecksOf(r.argv.live_only), net),
                                   !.actionable = act,
                                   !.signal_sent = ok,
                                   !.state = AfterSend(r.state, act, ok, IsoSeconds(r.NOW))]
        IN  /\ r.pc = "loaded"
            /\ IF /\ should_send(TierCounts(act), r.argv.live_only)
                  /\ act # <<>>
                  /\ build_signal_message(act, ModeOf(r)) # None
               THEN \E ok \in BOOLEAN :
                      /\ outbox' = Append(outbox,
                             [run |-> p, at |-> r.NOW, delivered |-> ok,
                              msg |-> build_signal_message(act, ModeOf(r)),
                              keys |-> {alert_hash(act[k]) : k \in 1..Len(act)}])
                      /\ procs' = [procs EXCEPT ![p] = after(ok)]
                      /\ fs' = IF ok THEN FilesAfterSend(after(ok).state, fs) ELSE fs
               ELSE /\ outbox' = outbox
                    /\ procs' = [procs EXCEPT ![p] = after(FALSE)]
                    /\ fs' = fs
            /\ UNCHANGED <<clock, net, broken, pc, runs, printed, locals, arg, ret>>

\* lines 871-882: the report is written
ProcReport ==
    \E p \in Procs :
        LET r == procs[p] IN
        /\ r.pc = "notified"
        /\ fs' = (ReportFile(r.NOW) :>
                     Complete(Report(r.NOW, ModeOf(r), r.all_alerts, TierCounts(r.actionable),
                                     r.check_stats, r.signal_sent, Len(r.actionable))))
                 @@ fs
        /\ procs' = [procs EXCEPT ![p].pc = "reported"]
        /\ UNCHANGED <<clock, net, broken, pc, runs, outbox, printed, locals, arg, ret>>

\* lines 887-900: the history entry, the purge, and save_state
ProcSave ==
    \E p \in Procs :
        LET r == procs[p]
            own == UpdateState(r.state, r.NOW, ModeOf(r), TierCounts(r.actionable),
                               r.signal_sent)
        IN  /\ r.pc = "reported"
            /\ fs' = (STATE_FILE :> Complete(StateToSave(own, fs))) @@ fs
            /\ procs' = [procs EXCEPT ![p].pc = "done",
                                      ![p].state = StateToSave(own, fs),
                                      ![p].saved_as = Saves + 1]
            /\ UNCHANGED <<clock, net, broken, pc, runs, outbox, printed, locals, arg, ret>>

\* the process dies after the send: save_json raises on the report (line
\* 882), or the process is killed before save_state
ProcAbort ==
    \E p \in Procs :
        /\ procs[p].pc \in {"notified", "reported"}
        /\ procs' = [procs EXCEPT ![p].pc = "aborted"]
        /\ UNCHANGED <<clock, fs, net, broken, pc, runs, outbox, printed, locals, arg, ret>>

ProcNext ==
    \/ ProcLoad
    \/ ProcNotify
    \/ ProcReport
    \/ ProcSave
    \/ ProcAbort

ProcSpec == ProcInit /\ [][ProcNext]_vars

----------------------------------------------------------------------------
(* Properties *)

CooldownTicks == ALERT_COOLDOWN_HOURS * Hour

\* the run has filtered its alerts / has passed the send / has ended normally
Filtered ==
    pc \in {"send", "report", "report_dump", "report_replace", "update", "state",
            "state_dump", "state_replace", "retention", "dashboard", "done"}
PastSend == Filtered /\ pc # "send"
Done == pc = "done"

InSeq(a, alerts) == \E k \in 1..Len(alerts) : alerts[k] = a
Entries(q) == {q[k] : k \in 1..Len(q)}

\* the state document on disk, and the one the run loaded
Persisted == load_state(fs)
LoadedState == IF loaded = None THEN DefaultState ELSE loaded

\* the report file of the run
WrittenReport == fs[ReportFile(NOW)].doc
ReportWritten ==
    /\ ReportFile(NOW) \in DOMAIN fs
    /\ fs[ReportFile(NOW)] = Complete(TheReport)

\* the sends of earlier runs that were delivered and held the key of alert a
DeliveredBefore(a) ==
    {e \in Entries(outbox) : e.run < runs /\ e.delivered /\ alert_hash(a) \in e.keys}

\* C1: once an alert key was part of a delivered notification of a run that
\* started at t, a later run that starts within 24 hours of t finds an alert
\* with that key not actionable, and a run that starts more than 24 hours
\* after the last such t finds it actionable again.
C1_CooldownWindow ==
    Filtered =>
        \A k \in 1..Len(all_alerts) :
            LET a == all_alerts[k] IN
            DeliveredBefore(a) # {} =>
                (InSeq(a, actionable)
                    <=> \A e \in DeliveredBefore(a) : NOW - e.at > CooldownTicks)

\* the run handed a message to send_signal / had it delivered
Attempted == \E e \in Entries(outbox) : e.run = runs
Delivered == \E e \in Entries(outbox) : e.run = runs /\ e.delivered

HasTier(alerts, tiers) == \E k \in 1..Len(alerts) : alerts[k].tier \in tiers

\* C2: in a run without --dry-run a send is attempted if and only if an
\* actionable alert is critical or high, or the run is a full run and an
\* actionable alert is medium.
C2_NotificationDecision ==
    (PastSend /\ ~argv.dry_run) =>
        (Attempted <=>
            \/ HasTier(actionable, {"critical", "high"})
            \/ (~argv.live_only /\ HasTier(actionable, {"medium"})))

\* a live-only run with medium alerts only has ended and has sent nothing
C2_Witness ==
    /\ Done /\ argv.live_only /\ ~argv.dry_run
    /\ actionable # <<>>
    /\ ~HasTier(actionable, {"critical", "high"})
    /\ ~Attempted

\* the sends of the run before this one that failed / the prints of a dry run
FailedLastRun == {e \in Entries(outbox) : e.run = runs - 1 /\ ~e.delivered}
PrintedLastRun == {e \in Entries(printed) : e.run = runs - 1}

\* no cooldown entry was added or refreshed since the state was loaded
NothingRecorded(sent) ==
    \A h \in DOMAIN sent :
        h \in DOMAIN LoadedState.sent_alerts /\ sent[h] = LoadedState.sent_alerts[h]

\* C3: when send_signal reports failure no cooldown entry is added or
\* refreshed, the report and the history entry of the run carry the sent flag
\* false, and the alerts of the failed message are actionable in the next run.
C3_FailedSendRecordsNothing ==
    /\ (PastSend /\ Attempted /\ ~Delivered) => NothingRecorded(state.sent_alerts)
    /\ (Done /\ Attempted /\ ~Delivered) =>
          /\ NothingRecorded(Persisted.sent_alerts)
          /\ ReportFile(NOW) \in DOMAIN fs
          /\ fs[ReportFile(NOW)].complete
          /\ WrittenReport.run_at = IsoSeconds(NOW)
          /\ WrittenReport.signal_sent = FALSE
          /\ Persisted.history[1].ts = IsoSeconds(NOW)
          /\ Persisted.history[1].signal = FALSE
    /\ Filtered =>
          \A e \in FailedLastRun : \A k \in 1..Len(all_alerts) :
              alert_hash(all_alerts[k]) \in e.keys => InSeq(all_alerts[k], actionable)

\* the run after a failed send has found the alerts of the failed message again
C3_Witness ==
    /\ Done /\ runs = 2
    /\ \E e \in FailedLastRun : \E k \in 1..Len(actionable) :
          alert_hash(actionable[k]) \in e.keys

\* C4: a dry run hands no message to the notification channel and adds or
\* refreshes no cooldown entry, and the alerts it printed are actionable in
\* the run that follows it.
C4_DryRunSendsNothing ==
    /\ (Filtered /\ argv.dry_run) =>
          /\ ~Attempted
          /\ NothingRecorded(state.sent_alerts)
    /\ (Done /\ argv.dry_run) => NothingRecorded(Persisted.sent_alerts)
    /\ Filtered =>
          \A e \in PrintedLastRun : \A k \in 1..Len(all_alerts) :
              alert_hash(all_alerts[k]) \in e.keys => InSeq(all_alerts[k], actionable)

\* a run that is no dry run follows, a second later, a dry run that printed
\* alerts, and sends them
C4_Witness ==
    /\ Done /\ runs = 2 /\ ~argv.dry_run /\ Delivered
    /\ NOW - Sec < T0 + Sec
    /\ \E e \in PrintedLastRun : \E k \in 1..Len(actionable) :
          alert_hash(actionable[k]) \in e.keys

\* C5: whichever checks raise, every check of the mode is called, in order,
\* the report is written, and its alert list holds every alert of the checks
\* that did not raise.
C5_DetectorIsolation ==
    /\ Filtered => called = ChecksOf(argv.live_only)
    /\ PastSend /\ pc \notin {"report", "report_dump", "report_replace"} =>
          /\ ReportFile(NOW) \in DOMAIN fs
          /\ fs[ReportFile(NOW)].complete
          /\ WrittenReport.run_at = IsoSeconds(NOW)
          /\ \A k \in 1..Len(ChecksOf(argv.live_only)) :
                LET fn == ChecksOf(argv.live_only)[k] IN
                fn \notin broken =>
                    \A a \in Conditions :
                        (a \in net /\ InSeq(a, Pool(fn))) => InSeq(a, WrittenReport.alerts)

\* a full run in which a check raised has ended; its report holds the alert
\* of a check that came after the one that raised
C5_Witness ==
    /\ Done /\ ~argv.live_only
    /\ broken = {"check_gateway"}
    /\ InSeq(RiskyRdp, WrittenReport.alerts)

StateSaved ==
    /\ STATE_FILE \in DOMAIN fs
    /\ fs[STATE_FILE] = Complete(state)

\* C6: every run that has started reaches its end, and at its end its report
\* is written and its state is saved, whichever checks raise and whether or
\* not the delivery and the dashboard regeneration fail.  (The next run starts
\* from the end of this one only, so the end a run leads to is its own.)
C6_RunCompletes ==
    /\ [](Done => (ReportWritten /\ StateSaved))
    /\ (Running ~> Done)

\* a run in which a check raised, the delivery failed and the dashboard
\* regeneration failed has ended
C6_Witness ==
    /\ Done /\ ReportWritten /\ StateSaved
    /\ broken # {}
    /\ Attempted /\ ~Delivered
    /\ regen = "failed"

PurgeTicks == 3 * CooldownTicks

\* C7: in the state a run has saved, no cooldown entry is older than 72 hours
\* before the start of the run, and an entry that was older when the run
\* loaded the state is gone unless the run refreshed it.
C7_StateGarbageCollection ==
    pc \in {"retention", "dashboard", "done"} =>
        /\ StateSaved
        /\ \A h \in DOMAIN Persisted.sent_alerts :
              ~(Persisted.sent_alerts[h] < NOW - PurgeTicks)
        /\ \A h \in DOMAIN LoadedState.sent_alerts :
              LoadedState.sent_alerts[h] < NOW - PurgeTicks =>
                  \/ h \notin DOMAIN Persisted.sent_alerts
                  \/ Persisted.sent_alerts[h] = IsoSeconds(NOW)

\* a dry run has ended; an entry that was older than 72 hours is gone
C7_Witness ==
    /\ Done /\ argv.dry_run
    /\ \E h \in DOMAIN LoadedState.sent_alerts :
          /\ LoadedState.sent_alerts[h] < NOW - PurgeTicks
          /\ h \notin DOMAIN Persisted.sent_alerts

Min(a, b) == IF a <= b THEN a ELSE b

\* C8: the saved history has at most 200 entries, newest first; a run puts
\* its own summary at the head, keeps the entries it loaded in their order
\* behind it, and drops the oldest ones beyond the cap.
C8_HistoryCapAndOrder ==
    /\ LET h == Persisted.history IN
          /\ Len(h) <= HistoryCap
          /\ \A j \in 1..(Len(h) - 1) : h[j].ts >= h[j + 1].ts
    /\ Done =>
          LET h == Persisted.history
              old == LoadedState.history
          IN  /\ h[1] = [ts |-> IsoSeconds(NOW),
                         mode |-> IF argv.live_only THEN "live" ELSE "full",
                         counts |-> TierCounts(actionable),
                         signal |-> Delivered]
              /\ Len(h) = Min(Len(old) + 1, HistoryCap)
              /\ \A k \in 2..Len(h) : h[k] = old[k - 1]

\* a run that loaded a full history has ended: the history is still at its cap
C8_Witness ==
    /\ Done
    /\ Len(LoadedState.history) = HistoryCap
    /\ Len(Persisted.history) = HistoryCap
    /\ Persisted.history[HistoryCap] = LoadedState.history[HistoryCap - 1]

\* C9: a file that is no temporary file never holds a partial document, and
\* while a run goes on the state file holds the document the run loaded or,
\* once the temporary file has replaced it, the complete new one.
C9_AtomicReplace ==
    /\ \A p \in DOMAIN fs : ~p.tmp => fs[p].complete
    /\ (Running \/ Done) =>
          \/ load_json(fs, STATE_FILE) = loaded
          \/ (pc \in {"retention", "dashboard", "done"} /\ StateSaved)

\* the process died between the write of the temporary file and the rename:
\* the state file still holds the complete earlier document
C9_Witness ==
    /\ pc = "aborted"
    /\ TmpPath(STATE_FILE) \in DOMAIN fs
    /\ fs[TmpPath(STATE_FILE)].complete
    /\ STATE_FILE \in DOMAIN fs
    /\ fs[STATE_FILE].complete
    /\ fs[STATE_FILE] # fs[TmpPath(STATE_FILE)]

\* the alert is not suppressed by the cooldown entries the run loaded
NotSuppressed(a) ==
    \/ alert_hash(a) \notin DOMAIN LoadedState.sent_alerts
    \/ LoadedState.sent_alerts[alert_hash(a)] < NOW - CooldownTicks

\* C10: the report a run has written lists every alert the checks returned,
\* suppressed or not, counts as actionable the alerts that passed the
\* cooldown filter, names the mode of the run, and carries the sent flag
\* exactly when the notification of the run was delivered.
C10_ReportDescribesRun ==
    pc \in {"update", "state", "state_dump", "state_replace", "retention",
            "dashboard", "done"} =>
        /\ ReportFile(NOW) \in DOMAIN fs
        /\ fs[ReportFile(NOW)].complete
        /\ WrittenReport.run_at = IsoSeconds(NOW)
        /\ WrittenReport.alerts = all_alerts
        /\ \A k \in 1..Len(called) :
              called[k] \notin broken =>
                  \A a \in net : InSeq(a, Pool(called[k])) => InSeq(a, WrittenReport.alerts)
        /\ WrittenReport.actionable =
              Cardinality({k \in 1..Len(all_alerts) : NotSuppressed(all_alerts[k])})
        /\ WrittenReport.mode = (IF argv.live_only THEN "live" ELSE "full")
        /\ WrittenReport.signal_sent = Delivered

\* a run whose notification was delivered has ended; its report lists an
\* alert that the cooldown suppressed beside the ones that were sent
C10_Witness ==
    /\ Done
    /\ WrittenReport.signal_sent
    /\ WrittenReport.actionable > 0
    /\ WrittenReport.actionable < Len(WrittenReport.alerts)

----------------------------------------------------------------------------
(* The check set and the per-check section of the report *)

\* the four live probes and the six delta detectors
LiveProbes ==
    {"check_arp_integrity", "check_dns_integrity", "check_gateway",
     "check_device_availability"}
DeltaDetectors ==
    {"check_rogue_dhcp", "check_vuln_deltas", "check_service_changes",
     "check_cert_expiry", "check_risky_ports", "check_score_trend"}

\* the report of the run is on disk
ReportOnDisk ==
    pc \in {"update", "state", "state_dump", "state_replace", "retention",
            "dashboard", "done"}

\* C11: once the checks of a run are over, a full run has called the four
\* live probes and then the six delta detectors, each once, and a live-only
\* run has called the four live probes, each once, and no delta detector.
C11_ModeSelectsChecks ==
    Filtered =>
        /\ \A j \in 1..Len(called) : \A k \in 1..Len(called) :
              called[j] = called[k] => j = k
        /\ argv.live_only => Entries(called) = LiveProbes
        /\ ~argv.live_only =>
              /\ Len(called) = Cardinality(LiveProbes) + Cardinality(DeltaDetectors)
              /\ {called[k] : k \in 1..Cardinality(LiveProbes)} = LiveProbes
              /\ Entries(called) \ LiveProbes = DeltaDetectors

\* a live-only run and, after it, a full run have both ended
C11_Witness ==
    /\ Done
    /\ runs = MaxRuns
    /\ ~argv.live_only
    /\ Len(called) = Len(checks_live) + Len(checks_full)
    /\ \E k \in 1..Len(Persisted.history) : Persisted.history[k].mode = "live"

\* C13: the report of a run has an entry for every check that raised, and
\* the status of that entry is not ok.
C13_FailedCheckInReport ==
    ReportOnDisk =>
        \A k \in 1..Len(called) :
            called[k] \in broken =>
                /\ StatsKey(called[k]) \in DOMAIN WrittenReport.checks
                /\ WrittenReport.checks[StatsKey(called[k])].status # "ok"

----------------------------------------------------------------------------
(* The reader and the checks, each on its own *)

\* the call of fn has returned
Returned(fn) == arg # None /\ arg.fn = fn /\ ret # None

\* the files of a dataset with no newer one, and with exactly one newer one
Newest(f, kind) ==
    {q \in Glob(f, kind) : \A o \in Glob(f, kind) : o.name[2] <= q.name[2]}
SecondNewest(f, kind) ==
    {q \in Glob(f, kind) :
        Cardinality({o \in Glob(f, kind) : o.name[2] > q.name[2]}) = 1}

\* the parsed content of the file in S (at most one), None when there is no
\* file or it does not parse
ParsedOrNone(f, S) ==
    IF \E q \in S : f[q].complete
    THEN f[CHOOSE q \in S : f[q].complete].doc
    ELSE None

\* C16: get_latest_two returns the parsed content of the newest file of the
\* dataset as current and of the second newest as previous, and None in the
\* position whose file is missing or does not parse.
C16_LatestTwo ==
    Returned("get_latest_two") =>
        /\ ret.curr = ParsedOrNone(arg.files, Newest(arg.files, arg.kind))
        /\ ret.prev = ParsedOrNone(arg.files, SecondNewest(arg.files, arg.kind))

\* the newest of three files is cut short: current is None, previous is the
\* content of the second newest
C16_Witness ==
    /\ Returned("get_latest_two")
    /\ Cardinality(Glob(arg.files, arg.kind)) = MaxFiles
    /\ ret.curr = None
    /\ ret.prev = [date |-> MaxFiles - 1]

\* the latest snapshot of a dataset among the files the check was given
Latest(kind) == ParsedOrNone(arg.files, Newest(arg.files, kind))

\* the same address, whatever the case of the letters
SameMac(a, b) == a.oui = b.oui /\ a.nic = b.nic

\* the positions of the alerts of a category for a host
AlertsFor(category, ip) ==
    {k \in 1..Len(ret.alerts) :
        ret.alerts[k].category = category /\ ret.alerts[k].host = IpStr(ip)}

\* C19: a neighbor entry that is not failed or incomplete, for an IP with a
\* recorded MAC in the latest scan, with another MAC than the recorded one,
\* gives exactly one arp_anomaly alert, high if the MAC is recorded for some
\* host of the scan, critical if for none; an entry with the recorded MAC
\* gives none.
C19_ArpClassification ==
    Returned("check_arp_integrity") =>
        LET scan == Latest("scan")
            Recorded(ip) ==
                /\ scan # None
                /\ ip \in DOMAIN scan.hosts
                /\ scan.hosts[ip].mac # NoMac
        IN  \A j \in 1..Len(arg.neigh) :
                LET e == arg.neigh[j] IN
                e.state \notin {"FAILED", "INCOMPLETE"} =>
                    IF Recorded(e.ip) /\ ~SameMac(e.mac, scan.hosts[e.ip].mac)
                    THEN \E k \in 1..Len(ret.alerts) :
                            /\ AlertsFor("arp_anomaly", e.ip) = {k}
                            /\ ret.alerts[k].tier =
                                  IF \E o \in DOMAIN scan.hosts :
                                        SameMac(e.mac, scan.hosts[o].mac)
                                  THEN "high" ELSE "critical"
                    ELSE AlertsFor("arp_anomaly", e.ip) = {}

\* host A answers with a MAC recorded for no host, host B with the MAC
\* recorded for host A: one critical and one high alert
C19_Witness ==
    /\ Returned("check_arp_integrity")
    /\ \E k \in AlertsFor("arp_anomaly", HostA) : ret.alerts[k].tier = "critical"
    /\ \E k \in AlertsFor("arp_anomaly", HostB) : ret.alerts[k].tier = "high"

\* the two latest snapshots of a dataset among the files the check was given
Previous(kind) == ParsedOrNone(arg.files, SecondNewest(arg.files, kind))

\* the positions, in the findings of host ip of the current snapshot, of the
\* findings of a severity whose (type, port, CVE) the previous snapshot does
\* not have for that host
NewAt(ip, severity) ==
    LET now == Latest("vuln").hosts[ip].findings
        before == IF ip \in DOMAIN Previous("vuln").hosts
                  THEN Previous("vuln").hosts[ip].findings ELSE <<>>
    IN  {j \in 1..Len(now) :
            /\ now[j].severity = severity
            /\ ~\E i \in 1..Len(before) :
                    /\ before[i].type = now[j].type
                    /\ before[i].port = now[j].port
                    /\ before[i].cve = now[j].cve}

\* the positions of the vuln_new alerts of a tier
VulnAlerts(tier) ==
    {k \in 1..Len(ret.alerts) :
        ret.alerts[k].category = "vuln_new" /\ ret.alerts[k].tier = tier}

CheckReturned == arg # None /\ arg.fn \in CheckNames /\ ret # None

\* C12: the stats a check returns have a status, which is one of ok, warning,
\* critical and skip.
C12_StatsHaveStatus ==
    CheckReturned =>
        /\ "status" \in DOMAIN ret.stats
        /\ ret.stats.status \in {"ok", "warning", "critical", "skip"}

\* the discovery ran: there is a default interface and the command printed
\* something
DhcpProbeRan == arg.iface # "" /\ arg.output.text

\* C14: when the discovery ran, every server identifier outside the
\* authorized set has exactly one critical rogue_dhcp alert and there is no
\* other alert; when it did not run, there is no alert and the status is skip.
C14_RogueDhcp ==
    Returned("check_rogue_dhcp") =>
        IF DhcpProbeRan
        THEN /\ \A ip \in arg.output.servers \ {GATEWAY_IP} :
                    \E k \in 1..Len(ret.alerts) :
                        /\ AlertsFor("rogue_dhcp", ip) = {k}
                        /\ ret.alerts[k].tier = "critical"
             /\ \A k \in 1..Len(ret.alerts) :
                    \E ip \in arg.output.servers \ {GATEWAY_IP} :
                        k \in AlertsFor("rogue_dhcp", ip)
        ELSE /\ ret.alerts = <<>>
             /\ ret.stats.status = "skip"

\* the dataset whose two latest snapshots a delta detector compares
ComparedDataset(fn) ==
    CASE fn = "check_vuln_deltas" -> "vuln"
      [] fn = "check_service_changes" -> "enum"
      [] fn \in {"check_risky_ports", "check_score_trend"} -> "scan"

ComparingDetectors ==
    {"check_vuln_deltas", "check_service_changes", "check_risky_ports",
     "check_score_trend"}

\* C15: a detector that compares two snapshots returns no alert when the
\* current or the previous snapshot is missing or does not parse.
C15_SnapshotAbsence ==
    \A fn \in ComparingDetectors :
        (Returned(fn) /\ (Latest(ComparedDataset(fn)) = None
                           \/ Previous(ComparedDataset(fn)) = None))
            => ret.alerts = <<>>

\* the current scan is there and the previous one is cut short: the risky
\* port check has returned without an alert
C15_Witness ==
    /\ Returned("check_risky_ports")
    /\ Latest("scan") # None
    /\ SnapshotFile("scan", 1) \in DOMAIN arg.files
    /\ Previous("scan") = None
    /\ ret.alerts = <<>>
    /\ "status" \in DOMAIN ret.stats

\* the certificate of a target was read, and its validity has ended
CertRead(t) == arg.certs[t].answered /\ arg.certs[t].parses
CertExpired(t) == arg.certs[t].expiry <= arg.now

\* C18: a certificate that has expired gives a critical alert; one that has
\* not, with d whole days left, gives a high alert when d <= 7, a medium one
\* when 7 < d <= 30 and none when d > 30.
C18_TlsThresholds ==
    Returned("check_cert_expiry") =>
        \A t \in TlsTargets(arg.files) :
            CertRead(t) =>
                LET d == (arg.certs[t].expiry - arg.now) \div Day
                    mine == {k \in 1..Len(ret.alerts) : ret.alerts[k].host = IpStr(t[1])}
                    Tier(tier) == \E k \in 1..Len(ret.alerts) :
                                     mine = {k} /\ ret.alerts[k].tier = tier
                IN  IF CertExpired(t) THEN Tier("critical")
                    ELSE IF d <= 7 THEN Tier("high")
                    ELSE IF d <= 30 THEN Tier("medium")
                    ELSE mine = {}

----------------------------------------------------------------------------
(* The risky port check in a full run *)

\* the two scans the run reads, and the ports a host has open in one of them
ScansRead ==
    [quiet |-> get_latest_two(ScanFiles(FALSE), "scan"),
     rdp |-> get_latest_two(ScanFiles(TRUE), "scan")]
RunScans == IF RiskyRdp \in net THEN ScansRead.rdp ELSE ScansRead.quiet
OpenIn(scan, ip) ==
    IF ip \in DOMAIN scan.hosts THEN {q.port : q \in scan.hosts[ip].ports} ELSE {}

\* a port of the risky-port table that a host has open in the current scan
\* and had not in the previous one
NewlyRisky(ip, port) ==
    /\ port \in DOMAIN RISKY_PORTS
    /\ port \in OpenIn(RunScans.curr, ip)
    /\ port \notin OpenIn(RunScans.prev, ip)

\* the alerts of the written report of category risky_port that refer to a
\* host and a port
ReportedRisky(ip, port) ==
    {k \in 1..Len(WrittenReport.alerts) :
        /\ WrittenReport.alerts[k].category = "risky_port"
        /\ WrittenReport.alerts[k].host = IpStr(ip)
        /\ WrittenReport.alerts[k].title =
               "New " \o RISKY_PORTS[port] \o " (" \o ToString(port) \o "/tcp) on "
                   \o IpStr(ip)}

\* C20: in the report of a full run whose risky port check returned, every
\* port of the risky-port table that a host of the current scan has open and
\* had not in the previous scan has exactly one alert of category risky_port
\* with the IP of the host, of tier high; a port of the table that was open
\* before has none, and a newly open port outside the table has no
\* risky_port alert at all.
C20_RiskyPortsReported ==
    (ReportOnDisk /\ ~argv.live_only /\ "check_risky_ports" \notin broken) =>
        /\ \A ip \in DOMAIN RunScans.curr.hosts :
              \A port \in DOMAIN RISKY_PORTS :
                 IF NewlyRisky(ip, port)
                 THEN \E k \in 1..Len(WrittenReport.alerts) :
                         /\ ReportedRisky(ip, port) = {k}
                         /\ WrittenReport.alerts[k].tier = "high"
                 ELSE ReportedRisky(ip, port) = {}
        /\ \A k \in 1..Len(WrittenReport.alerts) :
              WrittenReport.alerts[k].category = "risky_port" =>
                 \E ip \in DOMAIN RunScans.curr.hosts :
                    \E port \in DOMAIN RISKY_PORTS :
                       NewlyRisky(ip, port) /\ k \in ReportedRisky(ip, port)

\* a full run is over: the workstation has RDP newly open, HTTP newly open
\* and SMB open as before, and the report holds the RDP alert alone of its
\* category
C20_Witness ==
    /\ Done
    /\ ~argv.live_only
    /\ "check_risky_ports" \notin broken
    /\ NewlyRisky(HostE, 3389)
    /\ 80 \in OpenIn(RunScans.curr, HostE) \ OpenIn(RunScans.prev, HostE)
    /\ 445 \in OpenIn(RunScans.curr, HostE) \cap OpenIn(RunScans.prev, HostE)
    /\ \E k \in 1..Len(WrittenReport.alerts) :
          /\ WrittenReport.alerts[k].category = "risky_port"
          /\ WrittenReport.alerts[k].tier = "high"
          /\ WrittenReport.alerts[k].host = "192.168.1.50"
          /\ \A j \in 1..Len(WrittenReport.alerts) :
                WrittenReport.alerts[j].category = "risky_port" => j = k

----------------------------------------------------------------------------
(* The live probes, each on its own *)

\* the positions of the commands of the gateway check that went to a target
ProbesTo(target) == {k \in 1..Len(ret.probes) : ret.probes[k] = target}

\* C21: when the gateway does not answer, the check returns exactly one
\* alert, a critical one, and has probed no anchor; when it answers, 1.1.1.1
\* is probed, 8.8.8.8 is probed after it once 1.1.1.1 did not answer, and
\* the check returns exactly one alert, a high one, when neither answers and
\* no alert when one of them does.
C21_GatewayOrdering ==
    Returned("check_gateway") =>
        IF ~arg.gw
        THEN /\ Len(ret.alerts) = 1
             /\ ret.alerts[1].tier = "critical"
             /\ ProbesTo(ANCHOR_ONE) = {} /\ ProbesTo(ANCHOR_EIGHT) = {}
        ELSE /\ ProbesTo(ANCHOR_ONE) # {}
             /\ \A j \in ProbesTo(GATEWAY_IP), k \in ProbesTo(ANCHOR_ONE) : j < k
             /\ \A j \in ProbesTo(ANCHOR_ONE), k \in ProbesTo(ANCHOR_EIGHT) : j < k
             /\ ~arg.one => ProbesTo(ANCHOR_EIGHT) # {}
             /\ IF ~arg.one /\ ~arg.eight
                THEN Len(ret.alerts) = 1 /\ ret.alerts[1].tier = "high"
                ELSE ret.alerts = <<>>

\* the gateway is down while both anchors would answer: the check has pinged
\* the gateway alone and returned the critical alert
C21_Witness ==
    /\ Returned("check_gateway")
    /\ ~arg.gw /\ arg.one /\ arg.eight
    /\ ProbesTo(GATEWAY_IP) # {}
    /\ Len(ret.probes) = Cardinality(ProbesTo(GATEWAY_IP))
    /\ Len(ret.alerts) = 1
    /\ ret.alerts[1].category = "gateway_down"

\* the hosts the latest scan classifies as server or network equipment
ScanCritical ==
    IF Latest("scan") = None THEN {}
    ELSE {ip \in DOMAIN Latest("scan").hosts :
             Latest("scan").hosts[ip].device_type \in {"server", "network"}}

\* C22: the device check has pinged the gateway and every host the latest
\* scan classifies as server or network equipment, and every address it
\* pinged that does not answer has exactly one alert of category
\* device_offline, of tier high.
C22_CriticalDevices ==
    Returned("check_device_availability") =>
        /\ ({GATEWAY_IP} \cup ScanCritical) \subseteq Elems(ret.pinged)
        /\ \A ip \in Elems(ret.pinged) :
              ip \notin arg.answering =>
                 \E k \in 1..Len(ret.alerts) :
                    /\ AlertsFor("device_offline", ip) = {k}
                    /\ ret.alerts[k].tier = "high"

----------------------------------------------------------------------------
(* The cooldown filter on its own *)

\* alerts with the same category, host and title
SameKey(a, b) == a.category = b.category /\ a.host = b.host /\ a.title = b.title

\* an alert of the same category, host and title was sent within the last 24
\* hours
SentInWindow(a) ==
    /\ arg.now - arg.sent_at <= CooldownTicks
    /\ \E k \in 1..Len(arg.sent) : SameKey(arg.sent[k], a)

\* C23: the cooldown filter drops an alert exactly when an alert of the same
\* category, host and title was sent within the window: after the send of
\* an alert, one that differs from it in its title (or host, or category)
\* stays actionable, and one that differs in tier or detail only does not.
C23_DedupKey ==
    Returned("filter_cooldown") =>
        /\ Len(ret.alerts) <= Len(arg.alerts)
        /\ \A k \in 1..Len(arg.alerts) :
              InSeq(arg.alerts[k], ret.alerts) <=> ~SentInWindow(arg.alerts[k])

\* an hour after the send of the ARP alert the run finds it again with
\* another title, and with another tier: the first stays, the second goes
C23_Witness ==
    /\ Returned("filter_cooldown")
    /\ arg.sent = <<ArpSpoof>>
    /\ arg.now - arg.sent_at = Hour
    /\ arg.alerts[1].title # ArpSpoof.title
    /\ [arg.alerts[1] EXCEPT !.title = ArpSpoof.title] = ArpSpoof
    /\ arg.alerts[2] = [ArpSpoof EXCEPT !.tier = "high"]
    /\ ret.alerts = <<arg.alerts[1]>>

----------------------------------------------------------------------------
(* The movement of the average risk score *)

\* the alerts of the vulnerability check about the average risk score
RiskScoreAlerts ==
    {k \in 1..Len(ret.alerts) : ret.alerts[k].category \in {"risk_spike", "risk_increase"}}

\* C24: with both vulnerability snapshots read, a drop of the average risk
\* score from the previous to the current one of at least 10 gives exactly
\* one risk-score alert, a high one; a drop of at least 5 and less than 10
\* exactly one, a medium one; a smaller drop or a rise gives none.
C24_RiskScoreDrop ==
    (Returned("check_vuln_deltas") /\ Latest("vuln") # None /\ Previous("vuln") # None) =>
        LET drop == Previous("vuln").stats.avg_risk_score
                        - Latest("vuln").stats.avg_risk_score
            One(tier) == \E k \in 1..Len(ret.alerts) :
                            RiskScoreAlerts = {k} /\ ret.alerts[k].tier = tier
        IN  IF drop >= 10 THEN One("high")
            ELSE IF drop >= 5 THEN One("medium")
            ELSE RiskScoreAlerts = {}

----------------------------------------------------------------------------
(* The purge and the cooldown *)

\* the run has saved its state
AfterSave == pc \in {"retention", "dashboard", "done"}

\* a stamp of the last 24 hours
InCooldown(stamp) == stamp >= NOW - CooldownTicks

\* the cooldown entries of the run before the purge: the ones it loaded with
\* the ones of the message it had delivered
SentBeforePurge ==
    IF Delivered THEN MarkSent(LoadedState.sent_alerts, actionable, IsoSeconds(NOW))
    ELSE LoadedState.sent_alerts

\* C25: in the state a run has saved, every cooldown entry of the last 24
\* hours that the run loaded or recorded is present with its stamp, and every
\* alert the cooldown filter drops on the entries before the purge is
\* dropped on the saved state as well.
C25_PurgeKeepsCooldown ==
    AfterSave =>
        /\ \A h \in DOMAIN SentBeforePurge :
              InCooldown(SentBeforePurge[h]) =>
                 /\ h \in DOMAIN Persisted.sent_alerts
                 /\ Persisted.sent_alerts[h] = SentBeforePurge[h]
        /\ \A a \in Conditions :
              filter_cooldown(<<a>>, [sent_alerts |-> SentBeforePurge], NOW) = <<>>
                 => filter_cooldown(<<a>>, Persisted, NOW) = <<>>

\* a run has saved its state: the entry of an hour ago that it loaded is
\* kept, the one of 73 hours ago that it loaded is purged
C25_Witness ==
    /\ Done
    /\ \E h \in DOMAIN LoadedState.sent_alerts :
          /\ InCooldown(LoadedState.sent_alerts[h])
          /\ h \in DOMAIN Persisted.sent_alerts
          /\ Persisted.sent_alerts[h] = LoadedState.sent_alerts[h]
    /\ \E h \in DOMAIN LoadedState.sent_alerts :
          /\ ~InCooldown(LoadedState.sent_alerts[h])
          /\ h \notin DOMAIN Persisted.sent_alerts

----------------------------------------------------------------------------
(* Two processes on one state file *)

\* p and q have both saved, and each had loaded before the other saved
Interleaved(p, q) ==
    /\ p # q
    /\ procs[p].pc = "done"
    /\ procs[q].pc = "done"
    /\ procs[p].began < procs[q].saved_as
    /\ procs[q].began < procs[p].saved_as

\* the save of q is the latest one
SavedLast(q) == procs[q].pc = "done" /\ procs[q].saved_as = Saves

StampOf(p) == IsoSeconds(procs[p].NOW)

\* the keys of the message of p that was delivered
DeliveredKeys(p) ==
    UNION {e.keys : e \in {d \in Entries(outbox) : d.run = p /\ d.delivered}}

\* C26: when two processes have both loaded the state before either saved it
\* and q saved last, the state file is the document of q alone: it holds one
\* history entry more than q had loaded, none of them the entry of p, and no
\* cooldown entry carries the stamp of p.
C26_LostUpdate ==
    \A p \in Procs, q \in Procs :
        (Interleaved(p, q) /\ SavedLast(q)) =>
            /\ Len(Persisted.history) = Len(procs[q].loaded.history) + 1
            /\ \A k \in 1..Len(Persisted.history) :
                  Persisted.history[k].ts # StampOf(p)
            /\ \A key \in DOMAIN Persisted.sent_alerts :
                  Persisted.sent_alerts[key] # StampOf(p)

\* two interleaved processes have both delivered a message with the same
\* alert within the cooldown window, and an alert that only the first saver
\* had delivered has no cooldown entry of the window in the state file
C26_Witness ==
    \E p \in Procs, q \in Procs :
        /\ Interleaved(p, q)
        /\ SavedLast(q)
        /\ procs[q].NOW - procs[p].NOW < CooldownTicks
        /\ procs[p].NOW - procs[q].NOW < CooldownTicks
        /\ DeliveredKeys(p) \cap DeliveredKeys(q) # {}
        /\ \E key \in DeliveredKeys(p) \ DeliveredKeys(q) :
              \/ key \notin DOMAIN Persisted.sent_alerts
              \/ Persisted.sent_alerts[key] < procs[q].NOW - CooldownTicks

----------------------------------------------------------------------------
(* A process that dies between the send and the save *)

\* p has passed the send and has not saved
Unsaved(p) == procs[p].pc \in {"notified", "reported", "aborted"}

\* q has run its checks and filtered its alerts
PastNotify(q) == procs[q].pc \in {"notified", "reported", "done", "aborted"}

HashesOf(alerts) == {alert_hash(alerts[k]) : k \in 1..Len(alerts)}

\* C27: as long as a process has not reached save_state, nothing of it is in
\* the state file: no cooldown entry and no history entry with its stamp,
\* whether its message was delivered, its report written, or the process
\* dead.  A process that runs its checks then finds an alert of that message
\* not actionable only through an entry some other run has saved.
C27_EntriesOnlyThroughSave ==
    \A p \in Procs :
        Unsaved(p) =>
            /\ \A key \in DOMAIN Persisted.sent_alerts :
                  Persisted.sent_alerts[key] # StampOf(p)
            /\ \A k \in 1..Len(Persisted.history) :
                  Persisted.history[k].ts # StampOf(p)
            /\ \A q \in Procs \ {p} :
                  PastNotify(q) =>
                      \A key \in (DeliveredKeys(p) \cap HashesOf(procs[q].all_alerts))
                                     \ HashesOf(procs[q].actionable) :
                          /\ key \in DOMAIN procs[q].loaded.sent_alerts
                          /\ procs[q].loaded.sent_alerts[key] # StampOf(p)
                          /\ procs[q].loaded.sent_alerts[key] >= procs[q].NOW - CooldownTicks

\* a process died after its message was delivered, and the process that
\* started after its death has delivered a message with an alert of that
\* message, within the cooldown window
C27_Witness ==
    \E p \in Procs, q \in Procs :
        /\ procs[p].pc = "aborted"
        /\ procs[p].signal_sent
        /\ p \in procs[q].dead
        /\ procs[q].signal_sent
        /\ procs[q].NOW - procs[p].NOW < CooldownTicks
        /\ DeliveredKeys(p) \cap DeliveredKeys(q) # {}

----------------------------------------------------------------------------
(* The send, and what the message shows *)

\* needle in text
InText(needle, text) ==
    \E i \in 1..(Len(text) - Len(needle) + 1) :
        SubSeq(text, i, i + Len(needle) - 1) = needle

\* the alert is left out of the text that was sent
LeftOut(a) == ~InText(a.title, ret.msg.text)

\* C28: when the message was delivered, every actionable alert of the run
\* has a cooldown entry with the stamp of the run, the alerts beyond the
\* sixth of their tier and the ones the cut of the text has removed
\* included, and the cooldown filter drops every one of them an hour later.
C28_AllActionableMarked ==
    (Returned("send") /\ ret.signal_sent) =>
        /\ \A k \in 1..Len(arg.alerts) :
              /\ alert_hash(arg.alerts[k]) \in DOMAIN ret.state.sent_alerts
              /\ ret.state.sent_alerts[alert_hash(arg.alerts[k])] = IsoSeconds(arg.now)
        /\ filter_cooldown(arg.alerts, ret.state, arg.now + Hour) = <<>>

\* a delivered message that was cut at 1450 characters and leaves out an
\* alert beyond the sixth of its tier and one of the first six
C28_Witness ==
    /\ Returned("send")
    /\ ret.signal_sent
    /\ Len(ret.msg.text) = 1463
    /\ \E j \in 1..Len(arg.alerts) : j > ItemsPerTier /\ LeftOut(arg.alerts[j])
    /\ \E k \in 1..Len(arg.alerts) : k <= ItemsPerTier /\ LeftOut(arg.alerts[k])
    /\ \E k \in 1..Len(arg.alerts) : ~LeftOut(arg.alerts[k])

----------------------------------------------------------------------------
(* Medium alerts in live-only mode *)

\* the run has recorded the alert: it has an entry with the stamp of the run
RecordedNow(a, sent) ==
    alert_hash(a) \in DOMAIN sent /\ sent[alert_hash(a)] = IsoSeconds(NOW)

\* the message of the run that was delivered holds the alert
InDeliveredMessage(a) ==
    \E e \in Entries(outbox) : e.run = runs /\ e.delivered /\ alert_hash(a) \in e.keys

MediumOnly(alerts) == alerts # <<>> /\ ~HasTier(alerts, {"critical", "high"})

\* C29: in a live-only run a medium actionable alert has a cooldown entry of
\* the run exactly when a critical or high actionable alert has led to a
\* delivered message, and the alert is then in that message.  A live-only run
\* whose actionable alerts are all medium attempts no send and adds no entry,
\* in its own state and in the saved one, and the cooldown filter keeps all
\* of them on the saved state for a run that starts after any of the gaps.
C29_LiveMediumEntries ==
    /\ (PastSend /\ argv.live_only) =>
          \A k \in 1..Len(actionable) :
              actionable[k].tier = "medium" =>
                  /\ RecordedNow(actionable[k], state.sent_alerts)
                        <=> (Delivered /\ HasTier(actionable, {"critical", "high"}))
                  /\ RecordedNow(actionable[k], state.sent_alerts)
                        => InDeliveredMessage(actionable[k])
    /\ (PastSend /\ argv.live_only /\ MediumOnly(actionable)) =>
          /\ ~Attempted
          /\ NothingRecorded(state.sent_alerts)
    /\ (Done /\ argv.live_only /\ MediumOnly(actionable)) =>
          /\ NothingRecorded(Persisted.sent_alerts)
          /\ \A gap \in Gaps :
                filter_cooldown(actionable, Persisted, NOW + gap) = actionable

\* a full run follows a live-only run whose actionable alerts were all
\* medium and which sent nothing, finds a medium alert actionable and
\* delivers it
C29_Witness ==
    /\ Done /\ runs = 2 /\ ~argv.live_only /\ ~argv.dry_run
    /\ LoadedState.history # <<>>
    /\ LoadedState.history[1].mode = "live"
    /\ LoadedState.history[1].counts["medium"] > 0
    /\ LoadedState.history[1].counts["critical"] = 0
    /\ LoadedState.history[1].counts["high"] = 0
    /\ ~LoadedState.history[1].signal
    /\ \E k \in 1..Len(actionable) :
          /\ actionable[k].tier = "medium"
          /\ InDeliveredMessage(actionable[k])
          /\ RecordedNow(actionable[k], Persisted.sent_alerts)

----------------------------------------------------------------------------
(* What a dry run writes *)

\* the entries of the loaded state the purge of this run keeps
KeptByPurge ==
    {h \in DOMAIN LoadedState.sent_alerts :
        LoadedState.sent_alerts[h] > NOW - 3 * CooldownTicks}

\* C30: a dry run that has ended has written its report, with the sent flag
\* false, and has saved a state with its own time and mode as the last run,
\* one history entry more (up to the cap), the first being its own with the
\* sent flag false, and as cooldown entries exactly the loaded ones that are
\* not older than 72 hours, each with the stamp it had.
C30_DryRunWrites ==
    (Done /\ argv.dry_run) =>
        /\ ReportFile(NOW) \in DOMAIN fs
        /\ fs[ReportFile(NOW)].complete
        /\ WrittenReport.run_at = IsoSeconds(NOW)
        /\ WrittenReport.signal_sent = FALSE
        /\ "last_run" \in DOMAIN Persisted
        /\ Persisted.last_run = IsoSeconds(NOW)
        /\ Persisted.last_mode = mode
        /\ Len(Persisted.history)
              = (IF Len(LoadedState.history) < HistoryCap
                 THEN Len(LoadedState.history) + 1 ELSE HistoryCap)
        /\ Persisted.history[1]
              = [ts |-> IsoSeconds(NOW), mode |-> mode,
                 counts |-> TierCounts(actionable), signal |-> FALSE]
        /\ \A k \in 2..Len(Persisted.history) :
              Persisted.history[k] = LoadedState.history[k - 1]
        /\ DOMAIN Persisted.sent_alerts = KeptByPurge
        /\ \A h \in KeptByPurge :
              Persisted.sent_alerts[h] = LoadedState.sent_alerts[h]

\* a dry run that printed a message has ended: its report is on the disk,
\* and the state it saved differs from the one it loaded in the last run, in
\* the history, and in a cooldown entry that the purge has removed
C30_Witness ==
    /\ Done /\ argv.dry_run
    /\ \E e \in Entries(printed) : e.run = runs
    /\ ReportFile(NOW) \in DOMAIN fs
    /\ LoadedState.history # <<>>
    /\ Persisted.history # LoadedState.history
    /\ DOMAIN LoadedState.sent_alerts \ DOMAIN Persisted.sent_alerts # {}
====
